---- MODULE Spec2Model ----
(***************************************************************************)
(* Model of the lab-result validation function: src/index.js               *)
(* (processLabResults and its helpers) and src/validateResult/ucum-utils.js *)
(* (normalizeUnit, convertIfNeeded).                                        *)
(*                                                                         *)
(* JavaScript strings that the code transforms (units, sex) are sequences  *)
(* of one-character strings, so trim / toLowerCase / toUpperCase are       *)
(* computed.  JavaScript numbers are exact rationals [num, den] (the code  *)
(* only multiplies and divides by fixed factors), NaN is a separate value. *)
(***************************************************************************)
EXTENDS Integers, Sequences, FiniteSets, TLC

(***************************************************************************)
(* Rational arithmetic (stands for the double arithmetic of the code).     *)
(***************************************************************************)
Abs(n) == IF n < 0 THEN 0 - n ELSE n

RECURSIVE Gcd(_, _)
Gcd(a, b) == IF b = 0 THEN a ELSE Gcd(b, a % b)

Rat(n, d) ==
    LET g == Gcd(Abs(n), Abs(d))
        s == IF d < 0 THEN 0 - 1 ELSE 1
    IN  [num |-> (s * n) \div g, den |-> (s * d) \div g]

\* a * b and a / b (b not 0), cancelling common factors before multiplying
RMul(a, b) ==
    LET g == Gcd(Abs(a.num), b.den)
        h == Gcd(Abs(b.num), a.den)
    IN  Rat((a.num \div g) * (b.num \div h), (a.den \div h) * (b.den \div g))
RDiv(a, b) == RMul(a, [num |-> b.den, den |-> b.num])
RLess(a, b) == a.num * b.den < b.num * a.den

(***************************************************************************)
(* JavaScript values.                                                      *)
(***************************************************************************)
JUndef == [t |-> "undefined"]
JNull == [t |-> "null"]
JNaN == [t |-> "number", nan |-> TRUE]
JNum(r) == [t |-> "number", nan |-> FALSE, num |-> r.num, den |-> r.den]
JInt(n) == JNum(Rat(n, 1))
JStr(s) == [t |-> "string", s |-> s]
JBool(b) == [t |-> "boolean", b |-> b]
\* canonical["constructor"]: the property every object literal inherits
JObjectCtor == [t |-> "function", name |-> "Object"]

RatOf(v) == [num |-> v.num, den |-> v.den]

\* typeof v === "number"
IsNumberType(v) == v.t = "number"

\* !v
Falsy(v) ==
    \/ v.t \in {"undefined", "null"}
    \/ v.t = "string" /\ v.s = <<>>
    \/ v.t = "number" /\ (v.nan \/ v.num = 0)
    \/ v.t = "boolean" /\ ~v.b

\* a || b
Or(a, b) == IF Falsy(a) THEN b ELSE a

\* a ?? b
Nullish(a, b) == IF a.t \in {"undefined", "null"} THEN b ELSE a

\* a < b and a > b on numbers: false as soon as one side is NaN
JLess(a, b) == ~a.nan /\ ~b.nan /\ RLess(RatOf(a), RatOf(b))
JGreater(a, b) == JLess(b, a)
JLeq(a, b) == ~a.nan /\ ~b.nan /\ ~RLess(RatOf(b), RatOf(a))
JGeq(a, b) == JLeq(b, a)

(***************************************************************************)
(* Strings as character sequences.                                         *)
(***************************************************************************)
UpperAlphabet ==
    <<"A", "B", "C", "D", "E", "F", "G", "H", "I", "J", "K", "L", "M",
      "N", "O", "P", "Q", "R", "S", "T", "U", "V", "W", "X", "Y", "Z">>
LowerAlphabet ==
    <<"a", "b", "c", "d", "e", "f", "g", "h", "i", "j", "k", "l", "m",
      "n", "o", "p", "q", "r", "s", "t", "u", "v", "w", "x", "y", "z">>
Digits == <<"0", "1", "2", "3", "4", "5", "6", "7", "8", "9">>
WhiteSpace == {" ", "\t", "\n"}

IndexIn(c, alphabet) ==
    IF \E i \in DOMAIN alphabet : alphabet[i] = c
    THEN CHOOSE i \in DOMAIN alphabet : alphabet[i] = c
    ELSE 0

ToLowerCase(s) ==
    [i \in DOMAIN s |->
        IF IndexIn(s[i], UpperAlphabet) = 0 THEN s[i]
        ELSE LowerAlphabet[IndexIn(s[i], UpperAlphabet)]]

ToUpperCase(s) ==
    [i \in DOMAIN s |->
        IF IndexIn(s[i], LowerAlphabet) = 0 THEN s[i]
        ELSE UpperAlphabet[IndexIn(s[i], LowerAlphabet)]]

RECURSIVE TrimStart(_)
TrimStart(s) ==
    IF s # <<>> /\ Head(s) \in WhiteSpace THEN TrimStart(Tail(s)) ELSE s

RECURSIVE TrimEnd(_)
TrimEnd(s) ==
    IF s # <<>> /\ s[Len(s)] \in WhiteSpace
    THEN TrimEnd(SubSeq(s, 1, Len(s) - 1))
    ELSE s

Trim(s) == TrimEnd(TrimStart(s))

IsDigit(c) == IndexIn(c, Digits) # 0
DigitValue(c) == IndexIn(c, Digits) - 1

RECURSIVE DecimalValue(_)
DecimalValue(s) ==
    IF s = <<>> THEN 0
    ELSE 10 * DecimalValue(SubSeq(s, 1, Len(s) - 1)) + DigitValue(s[Len(s)])

RECURSIVE DigitPrefix(_)
DigitPrefix(s) ==
    IF s # <<>> /\ IsDigit(Head(s)) THEN <<Head(s)>> \o DigitPrefix(Tail(s))
    ELSE <<>>

\* Number(v), on the values and the string alphabet of this model (digits,
\* letters, blanks: no sign, decimal point or exponent).
Number(v) ==
    CASE v.t = "number" -> v
      [] v.t = "undefined" -> JNaN
      [] v.t = "null" -> JInt(0)
      [] v.t = "boolean" -> JInt(IF v.b THEN 1 ELSE 0)
      [] v.t = "string" ->
            LET k == Trim(v.s)
            IN  IF \A i \in DOMAIN k : IsDigit(k[i])
                THEN JInt(DecimalValue(k))
                ELSE JNaN
      [] OTHER -> JNaN

\* parseFloat(s) on a string: the longest numeric prefix after leading blanks
ParseFloat(s) ==
    LET p == DigitPrefix(TrimStart(s))
    IN  IF p = <<>> THEN JNaN ELSE JInt(DecimalValue(p))

IsNaN(v) == v.nan

(***************************************************************************)
(* src/validateResult/ucum-utils.js                                        *)
(***************************************************************************)
\* unit strings
U_g_dl == <<"g", "/", "d", "l">>
U_gdL == <<"g", "d", "L">>
U_g_L == <<"g", "/", "L">>
U_gl == <<"g", "l">>
U_mg_dl == <<"m", "g", "/", "d", "l">>
U_mg_dL == <<"m", "g", "/", "d", "L">>
U_mmol_l == <<"m", "m", "o", "l", "/", "l">>
U_mmol_L == <<"m", "m", "o", "l", "/", "L">>
U_iu_l == <<"i", "u", "/", "l">>
U_IU_L == <<"I", "U", "/", "L">>
U_pct == <<"%">>
U_percent == <<"p", "e", "r", "c", "e", "n", "t">>
U_g_dL == <<"g", "/", "d", "L">>
U_constructor == <<"c", "o", "n", "s", "t", "r", "u", "c", "t", "o", "r">>

\* const canonical = { key: token, ... }, as written
canonical ==
    [k \in {U_g_dl, U_gdL, U_g_L, U_gl, U_mg_dl, U_mg_dL, U_mmol_l,
            U_mmol_L, U_iu_l, U_pct, U_percent} |->
        CASE k = U_g_dl -> U_g_dL
          [] k = U_gdL -> U_g_dL
          [] k = U_g_L -> U_g_L
          [] k = U_gl -> U_g_L
          [] k = U_mg_dl -> U_mg_dL
          [] k = U_mg_dL -> U_mg_dL
          [] k = U_mmol_l -> U_mmol_L
          [] k = U_mmol_L -> U_mmol_L
          [] k = U_iu_l -> U_IU_L
          [] k = U_pct -> U_pct
          [] k = U_percent -> U_pct]

\* canonical[key]: an own property, else what the object literal inherits
\* from Object.prototype, else undefined
CanonicalGet(key) ==
    IF key \in DOMAIN canonical THEN JStr(canonical[key])
    ELSE IF key = U_constructor THEN JObjectCtor
    ELSE JUndef

\* normalizeUnit(u), u a string
normalizeUnit(u) ==
    IF u = <<>> THEN JNull
    ELSE Or(CanonicalGet(ToLowerCase(Trim(u))), JNull)

GLUCOSE_FACTOR == Rat(180182, 10000)
OneHundredth == Rat(1, 100)
Ten == Rat(10, 1)

\* return { value: v, note: n }
Converted(v, n) == [threw |-> FALSE, value |-> v, note |-> n, message |-> ""]

\* convertIfNeeded without its final throw: an untabulated pair returns the
\* value as it is
convertIfNeeded_NoThrow(value, fromUnit, toUnit) ==
        CASE fromUnit = toUnit -> Converted(value, "null")
          [] fromUnit # toUnit /\ fromUnit = JStr(U_g_dL) /\ toUnit = JStr(U_g_L) ->
                Converted(RMul(value, Ten), "g/dL->g/L")
          [] fromUnit # toUnit /\ fromUnit = JStr(U_g_L) /\ toUnit = JStr(U_g_dL) ->
                Converted(RDiv(value, Ten), "g/L->g/dL")
          [] fromUnit # toUnit /\ fromUnit = JStr(U_mg_dL) /\ toUnit = JStr(U_g_L) ->
                Converted(RMul(value, OneHundredth), "mg/dL->g/L")
          [] fromUnit # toUnit /\ fromUnit = JStr(U_g_L) /\ toUnit = JStr(U_mg_dL) ->
                Converted(RDiv(value, OneHundredth), "g/L->mg/dL")
          [] fromUnit # toUnit /\ fromUnit = JStr(U_mg_dL) /\ toUnit = JStr(U_mmol_L) ->
                Converted(RDiv(value, GLUCOSE_FACTOR), "mg/dL->mmol/L (glucose factor 18.0182)")
          [] fromUnit # toUnit /\ fromUnit = JStr(U_mmol_L) /\ toUnit = JStr(U_mg_dL) ->
                Converted(RMul(value, GLUCOSE_FACTOR), "mmol/L->mg/dL (glucose factor 18.0182)")
          [] OTHER -> Converted(value, "null")

\* convertIfNeeded with the rounded glucose factor 18 from mmol/L to mg/dL
convertIfNeeded_RoundedBack(value, fromUnit, toUnit) ==
        CASE fromUnit = toUnit -> Converted(value, "null")
          [] fromUnit # toUnit /\ fromUnit = JStr(U_g_dL) /\ toUnit = JStr(U_g_L) ->
                Converted(RMul(value, Ten), "g/dL->g/L")
          [] fromUnit # toUnit /\ fromUnit = JStr(U_g_L) /\ toUnit = JStr(U_g_dL) ->
                Converted(RDiv(value, Ten), "g/L->g/dL")
          [] fromUnit # toUnit /\ fromUnit = JStr(U_mg_dL) /\ toUnit = JStr(U_g_L) ->
                Converted(RMul(value, OneHundredth), "mg/dL->g/L")
          [] fromUnit # toUnit /\ fromUnit = JStr(U_g_L) /\ toUnit = JStr(U_mg_dL) ->
                Converted(RDiv(value, OneHundredth), "g/L->mg/dL")
          [] fromUnit # toUnit /\ fromUnit = JStr(U_mg_dL) /\ toUnit = JStr(U_mmol_L) ->
                Converted(RDiv(value, GLUCOSE_FACTOR), "mg/dL->mmol/L (glucose factor 18.0182)")
          [] fromUnit # toUnit /\ fromUnit = JStr(U_mmol_L) /\ toUnit = JStr(U_mg_dL) ->
                Converted(RMul(value, Rat(18, 1)), "mmol/L->mg/dL (glucose factor 18.0182)")
          [] OTHER ->
                [threw |-> TRUE, value |-> value, note |-> "null",
                 message |-> "Unsupported conversion"]

\* convertIfNeeded without its first line: equal units pass only through
\* the IU/L line
convertIfNeeded_NoIdentity(value, fromUnit, toUnit) ==
        CASE fromUnit = toUnit /\ fromUnit = JStr(U_IU_L) ->
                Converted(value, "null")
          [] fromUnit # toUnit /\ fromUnit = JStr(U_g_dL) /\ toUnit = JStr(U_g_L) ->
                Converted(RMul(value, Ten), "g/dL->g/L")
          [] fromUnit # toUnit /\ fromUnit = JStr(U_g_L) /\ toUnit = JStr(U_g_dL) ->
                Converted(RDiv(value, Ten), "g/L->g/dL")
          [] fromUnit # toUnit /\ fromUnit = JStr(U_mg_dL) /\ toUnit = JStr(U_g_L) ->
                Converted(RMul(value, OneHundredth), "mg/dL->g/L")
          [] fromUnit # toUnit /\ fromUnit = JStr(U_g_L) /\ toUnit = JStr(U_mg_dL) ->
                Converted(RDiv(value, OneHundredth), "g/L->mg/dL")
          [] fromUnit # toUnit /\ fromUnit = JStr(U_mg_dL) /\ toUnit = JStr(U_mmol_L) ->
                Converted(RDiv(value, GLUCOSE_FACTOR), "mg/dL->mmol/L (glucose factor 18.0182)")
          [] fromUnit # toUnit /\ fromUnit = JStr(U_mmol_L) /\ toUnit = JStr(U_mg_dL) ->
                Converted(RMul(value, GLUCOSE_FACTOR), "mmol/L->mg/dL (glucose factor 18.0182)")
          [] OTHER ->
                [threw |-> TRUE, value |-> value, note |-> "null",
                 message |-> "Unsupported conversion"]

\* convertIfNeeded(value, fromUnit, toUnit): value a rational, units
\* JavaScript values compared with ===.  threw = TRUE stands for
\* throw new Error("Unsupported conversion ...").
convertIfNeeded(value, fromUnit, toUnit) ==
        CASE fromUnit = toUnit -> Converted(value, "null")
          [] fromUnit # toUnit /\ fromUnit = JStr(U_g_dL) /\ toUnit = JStr(U_g_L) ->
                Converted(RMul(value, Ten), "g/dL->g/L")
          [] fromUnit # toUnit /\ fromUnit = JStr(U_g_L) /\ toUnit = JStr(U_g_dL) ->
                Converted(RDiv(value, Ten), "g/L->g/dL")
          [] fromUnit # toUnit /\ fromUnit = JStr(U_mg_dL) /\ toUnit = JStr(U_g_L) ->
                Converted(RMul(value, OneHundredth), "mg/dL->g/L")
          [] fromUnit # toUnit /\ fromUnit = JStr(U_g_L) /\ toUnit = JStr(U_mg_dL) ->
                Converted(RDiv(value, OneHundredth), "g/L->mg/dL")
          [] fromUnit # toUnit /\ fromUnit = JStr(U_mg_dL) /\ toUnit = JStr(U_mmol_L) ->
                Converted(RDiv(value, GLUCOSE_FACTOR), "mg/dL->mmol/L (glucose factor 18.0182)")
          [] fromUnit # toUnit /\ fromUnit = JStr(U_mmol_L) /\ toUnit = JStr(U_mg_dL) ->
                Converted(RMul(value, GLUCOSE_FACTOR), "mmol/L->mg/dL (glucose factor 18.0182)")
          [] OTHER ->
                [threw |-> TRUE, value |-> value, note |-> "null",
                 message |-> "Unsupported conversion"]

(***************************************************************************)
(* src/index.js: helpers reading directory documents.  A document is a     *)
(* record of JavaScript values; a field the document lacks is JUndef.      *)
(***************************************************************************)
MappingDoc(loinc, loincCode, loinc_code, defaultUnitUCUM, unit, displayName) ==
    [t |-> "object", loinc |-> loinc, loincCode |-> loincCode,
     loinc_code |-> loinc_code, defaultUnitUCUM |-> defaultUnitUCUM,
     unit |-> unit, unit_ucum |-> JUndef, displayName |-> displayName,
     localName |-> JUndef]

RefDoc(sex, gender, ageMin, ageMax, low, high, criticalLow, criticalHigh) ==
    [t |-> "object", sex |-> sex, gender |-> gender, ageMin |-> ageMin,
     ageMax |-> ageMax, low |-> low, minValue |-> JUndef, high |-> high,
     maxValue |-> JUndef, criticalLow |-> criticalLow,
     criticalHigh |-> criticalHigh]

getLoincFromMapping(mapDoc) ==
    Or(Or(Or(mapDoc.loinc, mapDoc.loincCode), mapDoc.loinc_code), JNull)

getDefaultUnitFromMapping(mapDoc) ==
    Or(Or(Or(mapDoc.defaultUnitUCUM, mapDoc.unit), mapDoc.unit_ucum), JNull)

extractRefRange(refDoc) ==
    [low |-> Nullish(Nullish(refDoc.low, refDoc.minValue), JUndef),
     high |-> Nullish(Nullish(refDoc.high, refDoc.maxValue), JUndef),
     critLow |-> Nullish(refDoc.criticalLow, JUndef),
     critHigh |-> Nullish(refDoc.criticalHigh, JUndef),
     sex |-> ToUpperCase(Or(Or(refDoc.sex, refDoc.gender), JStr(<<"U">>)).s),
     ageMin |-> Nullish(refDoc.ageMin, JUndef),
     ageMax |-> Nullish(refDoc.ageMax, JUndef)]

\* the predicate of refs.find(...), for the patient's sex and age
RefMatches(r, sex, patientAge) ==
    LET e == extractRefRange(r)
    IN  /\ (e.sex = <<"U">> \/ e.sex = sex)
        /\ (e.ageMin = JUndef \/ JGeq(patientAge, Number(e.ageMin)))
        /\ (e.ageMax = JUndef \/ JLeq(patientAge, Number(e.ageMax)))

\* FindRef returning the last matching document
FindRef_Last(refs, sex, patientAge) ==
    IF \E i \in DOMAIN refs : RefMatches(refs[i], sex, patientAge)
    THEN refs[CHOOSE i \in DOMAIN refs :
                /\ RefMatches(refs[i], sex, patientAge)
                /\ \A j \in (i + 1)..Len(refs) :
                        ~RefMatches(refs[j], sex, patientAge)]
    ELSE JUndef

\* refs.find(...): the first matching document, else undefined
FindRef(refs, sex, patientAge) ==
    IF \E i \in DOMAIN refs : RefMatches(refs[i], sex, patientAge)
    THEN refs[CHOOSE i \in DOMAIN refs :
                /\ RefMatches(refs[i], sex, patientAge)
                /\ \A j \in 1..(i - 1) : ~RefMatches(refs[j], sex, patientAge)]
    ELSE JUndef

\* Interpret with the normal bounds tested before the critical ones
Interpret_NormalFirst(matchedRef, finalValue) ==
    IF ~Falsy(matchedRef) /\ IsNumberType(finalValue)
    THEN LET e == extractRefRange(matchedRef)
         IN  IF e.low # JUndef /\ JLess(finalValue, Number(e.low))
                THEN "L"
             ELSE IF e.high # JUndef /\ JGreater(finalValue, Number(e.high))
                THEN "H"
             ELSE IF e.critLow # JUndef /\ JLess(finalValue, Number(e.critLow))
                THEN "CRIT_LOW"
             ELSE IF e.critHigh # JUndef /\ JGreater(finalValue, Number(e.critHigh))
                THEN "CRIT_HIGH"
             ELSE "N"
    ELSE "NO_REF"

\* Interpret without its else branch: the initial "N" stays
Interpret_NoElse(matchedRef, finalValue) ==
    IF ~Falsy(matchedRef) /\ IsNumberType(finalValue)
    THEN LET e == extractRefRange(matchedRef)
         IN  IF e.critLow # JUndef /\ JLess(finalValue, Number(e.critLow))
                THEN "CRIT_LOW"
             ELSE IF e.critHigh # JUndef /\ JGreater(finalValue, Number(e.critHigh))
                THEN "CRIT_HIGH"
             ELSE IF e.low # JUndef /\ JLess(finalValue, Number(e.low))
                THEN "L"
             ELSE IF e.high # JUndef /\ JGreater(finalValue, Number(e.high))
                THEN "H"
             ELSE "N"
    ELSE "N"

\* the interpretation flag computed from matchedRef and finalValue
Interpret(matchedRef, finalValue) ==
    IF ~Falsy(matchedRef) /\ IsNumberType(finalValue)
    THEN LET e == extractRefRange(matchedRef)
         IN  IF e.critLow # JUndef /\ JLess(finalValue, Number(e.critLow))
                THEN "CRIT_LOW"
             ELSE IF e.critHigh # JUndef /\ JGreater(finalValue, Number(e.critHigh))
                THEN "CRIT_HIGH"
             ELSE IF e.low # JUndef /\ JLess(finalValue, Number(e.low))
                THEN "L"
             ELSE IF e.high # JUndef /\ JGreater(finalValue, Number(e.high))
                THEN "H"
             ELSE "N"
    ELSE "NO_REF"

(***************************************************************************)
(* The collaborators' contents and the batches submitted.                  *)
(***************************************************************************)
MaxItems == 2

BatchIds == {1}

\* local test identifiers
T_glu == <<"g", "l", "u">>
T_hgb == <<"h", "g", "b">>
T_rat == <<"r", "a", "t">>
T_nol == <<"n", "o", "l">>
T_unm == <<"u", "n", "m">>
\* canonical codes
L_glu == <<"2", "3", "4", "5", "-", "7">>
L_hgb == <<"7", "1", "8", "-", "7">>
L_rat == <<"9", "9">>
K_null == <<"n", "u", "l", "l">>

\* Mapping Directory: the documents listDocuments(MAPPINGS, localTestId =
\* id, limit 1) returns.  One mapping per way of spelling its fields, one
\* without a canonical code, and an identifier without any mapping.
MappingDirectory(id) ==
    CASE id = T_glu ->
            <<MappingDoc(JStr(L_glu), JUndef, JUndef, JStr(U_mg_dL), JUndef,
                         JStr(<<"G">>))>>
      [] id = T_hgb ->
            <<MappingDoc(JUndef, JStr(L_hgb), JUndef, JUndef, JStr(U_g_dL),
                         JUndef)>>
      [] id = T_rat ->
            <<MappingDoc(JUndef, JUndef, JStr(L_rat), JUndef, JUndef, JUndef)>>
      [] id = T_nol ->
            <<MappingDoc(JUndef, JUndef, JUndef, JStr(U_mg_dL), JUndef, JUndef)>>
      [] OTHER -> <<>>

\* Reference Range Directory: the documents listDocuments(REFS, loinc =
\* code) returns, in returned order.
RefDirectory(loinc) ==
    CASE loinc = JStr(L_glu) ->
            <<RefDoc(JStr(<<"f">>), JUndef, JInt(18), JInt(65),
                     JInt(70), JInt(110), JInt(40), JInt(400)),
              RefDoc(JUndef, JStr(<<"M">>), JInt(18), JNull,
                     JInt(75), JInt(115), JUndef, JInt(400))>>
      [] loinc = JStr(L_hgb) ->
            <<RefDoc(JUndef, JUndef, JUndef, JUndef,
                     JInt(12), JInt(16), JUndef, JUndef)>>
      [] OTHER -> <<>>

Item(localTestId, value, unit) ==
    [localTestId |-> localTestId, value |-> value, unit |-> unit]

\* raw readings a batch may contain
Items ==
    {Item(x[1], x[2], x[3]) : x \in
        {<<T_glu, JInt(126), U_mg_dl>>,
         <<T_glu, JInt(126), <<>>>>,
         <<T_glu, JInt(126), U_pct>>,
         <<T_glu, JStr(<<"7">>), <<" ">> \o ToUpperCase(U_mmol_l) \o <<" ">>>>,
         <<T_glu, JStr(<<"a", "b", "c">>),
           <<" ">> \o ToUpperCase(U_mmol_l) \o <<" ">>>>,
         <<T_glu, JStr(<<>>), U_mg_dl>>,
         <<T_hgb, JInt(13), U_gl>>,
         <<T_hgb, JNull, U_g_dl>>,
         <<T_rat, JInt(5), U_percent>>,
         <<T_nol, JInt(126), U_mg_dl>>,
         <<T_unm, JInt(126), U_mg_dl>>}}

RECURSIVE SeqsUpTo(_, _)
SeqsUpTo(S, n) ==
    IF n = 0 THEN {<<>>}
    ELSE LET shorter == SeqsUpTo(S, n - 1)
         IN  shorter \cup {Append(q, x) : q \in shorter, x \in S}

\* the patient part of a payload: sex under one of its field names, age a
\* number or a string
Patients ==
    {[sex |-> JStr(<<"f">>), P_sex |-> JUndef, P_gender |-> JUndef,
      P_age |-> JInt(30)],
     [sex |-> JUndef, P_sex |-> JUndef, P_gender |-> JStr(<<"M">>),
      P_age |-> JStr(<<"7", "0">>)],
     [sex |-> JUndef, P_sex |-> JUndef, P_gender |-> JUndef,
      P_age |-> JInt(10)]}

\* the result arrays a payload may carry
ResultLists == SeqsUpTo(Items, MaxItems)

\* the data main hands to processLabResults for patient p and result r:
\* preprocessPayload always sets result to an array and incomingDocId to an id
Payload(b, p, r) ==
    [sex |-> p.sex, P_sex |-> p.P_sex, P_gender |-> p.P_gender,
     P_age |-> p.P_age, P_id |-> b, result |-> r,
     incomingDocId |-> JStr(<<"d", Digits[b + 1]>>)]

(***************************************************************************)
(* State.                                                                  *)
(*   data[b]       the payload processLabResults(data) was started with    *)
(*   proc[b]       the locals of that run: pc (the await it is suspended   *)
(*                 at, or the head of the item loop), idx (the item of     *)
(*                 data.result the loop is at), mappingCache, refCache,    *)
(*                 processedTests, errors, cur (loinc, finalValue,         *)
(*                 finalUnit, display of the item awaiting its ranges),    *)
(*                 obsIds, reportId, err (the error the commit caught),    *)
(*                 threw (the items during which a directory lookup threw),*)
(*                 queries (the listDocuments calls issued so far, each    *)
(*                 with the item it was issued for)                        *)
(*   observations, reports, audits   the OBS, REPORTS, AUDIT collections   *)
(*   incoming[b]   the INCOMING document of data[b].incomingDocId          *)
(*   log[b]        what the run wrote with console.error                   *)
(*   call, ret     a direct call of one of the pure functions and what it  *)
(*                 returned (specification SpecFn)                         *)
(***************************************************************************)
VARIABLES data, proc, observations, reports, audits, incoming, log, call, ret

batchVars == <<data, proc, observations, reports, audits, incoming, log>>
fnVars == <<call, ret>>
vars == <<data, proc, observations, reports, audits, incoming, log, call, ret>>

NoCur == [t |-> "undefined"]

InitProc ==
    [pc |-> "idle", idx |-> 1, mappingCache |-> <<>>, refCache |-> <<>>,
     processedTests |-> <<>>, errors |-> <<>>, cur |-> NoCur,
     obsIds |-> <<>>, reportId |-> JUndef, err |-> "", threw |-> {},
     queries |-> <<>>]

InitIncoming == [status |-> "pending"]

NoCall == [fn |-> "none"]
NoRet == [done |-> FALSE]

Init ==
    /\ \E ps \in [BatchIds -> Patients], rs \in [BatchIds -> ResultLists] :
            data = [b \in BatchIds |-> Payload(b, ps[b], rs[b])]
    /\ proc = [b \in BatchIds |-> InitProc]
    /\ observations = <<>>
    /\ reports = <<>>
    /\ audits = <<>>
    /\ incoming = [b \in BatchIds |-> InitIncoming]
    /\ log = [b \in BatchIds |-> {}]
    /\ call = NoCall
    /\ ret = NoRet

\* const patientAge = typeof data.P_age === "string" ? parseFloat(...) : ...
patientAge(d) ==
    IF d.P_age.t = "string" THEN ParseFloat(d.P_age.s) ELSE d.P_age

\* const sex = (data.sex || data.P_sex || data.P_gender || "U").toUpperCase()
sex(d) ==
    ToUpperCase(Or(Or(Or(d.sex, d.P_sex), d.P_gender), JStr(<<"U">>)).s)

\* cache[key] of a plain-object cache
CacheGet(cache, key) == IF key \in DOMAIN cache THEN cache[key] ELSE JUndef
\* cache[key] = value
CachePut(cache, key, value) ==
    [k \in DOMAIN cache \cup {key} |-> IF k = key THEN value ELSE cache[k]]
\* the property name a key value is turned into
KeyOf(v) == IF v.t = "string" THEN v.s ELSE K_null

\* an array of documents as a (truthy) JavaScript value
JArray(docs) == [t |-> "object", docs |-> docs]

\* databases.listDocuments(DB_ID, collection, [Query.equal(..., key)]) is
\* called while item p.idx is processed
Issue(p, collection, key) ==
    [p EXCEPT !.queries =
        Append(@, [collection |-> collection, key |-> key, item |-> p.idx])]

\* continue: on to the next item of the loop
NextItem(p) == [p EXCEPT !.idx = @ + 1, !.pc = "loop", !.cur = NoCur]

\* PushError leaving the loop (break) instead of continuing
PushError_Break(p, localTestId, reason) ==
    [p EXCEPT !.errors =
                Append(@, [localTestId |-> localTestId, reason |-> reason]),
              !.idx = MaxItems + 2, !.pc = "loop", !.cur = NoCur]

\* errors.push({ localTestId, reason }); continue
PushError(p, localTestId, reason) ==
    NextItem([p EXCEPT !.errors =
                Append(@, [localTestId |-> localTestId, reason |-> reason])])

\* from "if (!mapping)" to the lookup of the ranges, for item t: an error
\* to record, or the loinc, value and unit the rest of the iteration uses
AfterMapping(t, mapping) ==
    IF Falsy(mapping)
    THEN [kind |-> "error", reason |-> "Missing mapping document"]
    ELSE
    LET loinc == getLoincFromMapping(mapping)
        canonicalUnitFromMapping == getDefaultUnitFromMapping(mapping)
        unitRaw == t.unit
        normalizedUnit == normalizeUnit(unitRaw)
        numericValue ==
            IF t.value.t = "number" THEN t.value ELSE Number(t.value)
        display ==
            Or(Or(mapping.displayName, mapping.localName), JStr(t.localTestId))
    IN  IF Falsy(normalizedUnit)
        THEN [kind |-> "error", reason |-> "Unknown unit"]
        ELSE IF /\ ~IsNaN(numericValue)
                /\ ~Falsy(canonicalUnitFromMapping)
                /\ normalizedUnit # canonicalUnitFromMapping
        THEN LET converted ==
                    convertIfNeeded(RatOf(numericValue), normalizedUnit,
                                    canonicalUnitFromMapping)
             IN  IF converted.threw
                 THEN [kind |-> "error", reason |-> "Conversion failed"]
                 ELSE [kind |-> "ok", loinc |-> loinc, display |-> display,
                       finalValue |-> JNum(converted.value),
                       finalUnit |-> canonicalUnitFromMapping]
        ELSE [kind |-> "ok", loinc |-> loinc, display |-> display,
              finalValue |->
                  IF IsNaN(numericValue) THEN t.value ELSE numericValue,
              finalUnit |-> normalizedUnit]

\* WithRefs putting the observation in front (unshift for push)
WithRefs_Unshift(p, d, refs) ==
    LET t == d.result[p.idx]
        matchedRef == FindRef(refs.docs, sex(d), patientAge(d))
        interpretation == Interpret(matchedRef, p.cur.finalValue)
    IN  NextItem([p EXCEPT !.processedTests =
            <<[localTestId |-> t.localTestId,
               loinc |-> p.cur.loinc,
               display |-> p.cur.display,
               value |-> p.cur.finalValue,
               unit |-> p.cur.finalUnit,
               interpretation |-> interpretation]>> \o @])

\* WithRefs classifying the raw value of the item instead of finalValue
WithRefs_RawFlag(p, d, refs) ==
    LET t == d.result[p.idx]
        matchedRef == FindRef(refs.docs, sex(d), patientAge(d))
        interpretation == Interpret(matchedRef, Number(t.value))
    IN  NextItem([p EXCEPT !.processedTests =
            Append(@, [localTestId |-> t.localTestId,
                       loinc |-> p.cur.loinc,
                       display |-> p.cur.display,
                       value |-> p.cur.finalValue,
                       unit |-> p.cur.finalUnit,
                       interpretation |-> interpretation])])

\* from refs.find(...) to processedTests.push(...)
WithRefs(p, d, refs) ==
    LET t == d.result[p.idx]
        matchedRef == FindRef(refs.docs, sex(d), patientAge(d))
        interpretation == Interpret(matchedRef, p.cur.finalValue)
    IN  NextItem([p EXCEPT !.processedTests =
            Append(@, [localTestId |-> t.localTestId,
                       loinc |-> p.cur.loinc,
                       display |-> p.cur.display,
                       value |-> p.cur.finalValue,
                       unit |-> p.cur.finalUnit,
                       interpretation |-> interpretation])])

\* the iteration once the mapping is known, up to its next await
WithMapping(p, d, mapping) ==
    LET t == d.result[p.idx]
        r == AfterMapping(t, mapping)
    IN  IF r.kind = "error" THEN PushError(p, t.localTestId, r.reason)
        ELSE LET q == [p EXCEPT !.cur = r]
                 refs == CacheGet(p.refCache, KeyOf(r.loinc))
             IN  IF Falsy(refs)
                 THEN Issue([q EXCEPT !.pc = "awaitRefs"], "REFS", r.loinc)
                 ELSE WithRefs(q, d, refs)

(***************************************************************************)
(* processLabResults: one action per stretch of code between two awaits    *)
(* (the head of the item loop is a step boundary too).                     *)
(***************************************************************************)
\* SetProc with one mappingCache and one refCache for all runs (module-level
\* caches instead of the locals of processLabResults)
SetProc_SharedCaches(b, p) ==
    proc' = [c \in DOMAIN proc |->
                IF c = b THEN p
                ELSE [proc[c] EXCEPT !.mappingCache = p.mappingCache,
                                     !.refCache = p.refCache]]

SetProc(b, p) == proc' = [proc EXCEPT ![b] = p]

UpdatePc(d, awaiting) ==
    IF ~Falsy(d.incomingDocId) THEN awaiting ELSE "done"

\* entry: the empty-result shortcut, else into the loop
Start(b) ==
    /\ proc[b].pc = "idle"
    /\ SetProc(b, [proc[b] EXCEPT !.pc =
            IF Len(data[b].result) = 0
            THEN UpdatePc(data[b], "awaitEmptyUpdate")
            ELSE "loop"])
    /\ UNCHANGED <<data, observations, reports, audits, incoming, log, call, ret>>

\* for (const t of data.result): the mapping from the cache, or its lookup
ItemStart(b) ==
    LET p == proc[b]
        d == data[b]
    IN  /\ p.pc = "loop"
        /\ p.idx <= Len(d.result)
        /\ LET mapping == CacheGet(p.mappingCache, d.result[p.idx].localTestId)
           IN  SetProc(b, IF Falsy(mapping)
                          THEN Issue([p EXCEPT !.pc = "awaitMapping"],
                                     "MAPPINGS",
                                     JStr(d.result[p.idx].localTestId))
                          ELSE WithMapping(p, d, mapping))
        /\ UNCHANGED <<data, observations, reports, audits, incoming, log, call, ret>>

\* await databases.listDocuments(DB_ID, COLS.MAPPINGS, ...) returns
MappingReturns(b) ==
    LET p == proc[b]
        d == data[b]
    IN  /\ p.pc = "awaitMapping"
        /\ LET id == d.result[p.idx].localTestId
               documents == MappingDirectory(id)
               mapping == IF documents # <<>> THEN Or(documents[1], JNull)
                          ELSE JNull
               q == [p EXCEPT !.mappingCache = CachePut(@, id, mapping)]
           IN  SetProc(b, WithMapping(q, d, mapping))
        /\ UNCHANGED <<data, observations, reports, audits, incoming, log, call, ret>>

\* ItemCatch issuing the failed lookup again instead of giving the item up
ItemCatch_Retry(b) ==
    LET p == proc[b]
        failed == p.queries[Len(p.queries)]
    IN  /\ SetProc(b, Issue([p EXCEPT !.threw = @ \cup {p.idx}],
                            failed.collection, failed.key))
        /\ log' = [log EXCEPT ![b] = @ \cup {"Error processing test item"}]
        /\ UNCHANGED <<data, observations, reports, audits, incoming, call, ret>>

\* ItemCatch logging the error without errors.push
ItemCatch_Swallow(b) ==
    LET p == proc[b]
    IN  /\ SetProc(b, NextItem([p EXCEPT !.threw = @ \cup {p.idx}]))
        /\ log' = [log EXCEPT ![b] = @ \cup {"Error processing test item"}]
        /\ UNCHANGED <<data, observations, reports, audits, incoming, call, ret>>

\* catch (err) of the iteration: errors.push({ localTestId, reason: err.message })
ItemCatch(b) ==
    LET p == proc[b]
        t == data[b].result[p.idx]
    IN  /\ SetProc(b, PushError([p EXCEPT !.threw = @ \cup {p.idx}],
                                Or(JStr(t.localTestId), JStr(<<"_">>)).s,
                                "lookup failed"))
        /\ log' = [log EXCEPT ![b] = @ \cup {"Error processing test item"}]
        /\ UNCHANGED <<data, observations, reports, audits, incoming, call, ret>>

\* the mapping lookup throws
MappingThrows(b) ==
    /\ proc[b].pc = "awaitMapping"
    /\ ItemCatch(b)

\* RefsReturns caching a list only when it is not empty
RefsReturns_NoCacheEmpty(b) ==
    LET p == proc[b]
        d == data[b]
    IN  /\ p.pc = "awaitRefs"
        /\ LET refs == JArray(RefDirectory(p.cur.loinc))
               q == IF refs.docs = <<>> THEN p
                    ELSE [p EXCEPT !.refCache =
                            CachePut(@, KeyOf(p.cur.loinc), refs)]
           IN  SetProc(b, WithRefs(q, d, refs))
        /\ UNCHANGED <<data, observations, reports, audits, incoming, log, call, ret>>

\* await databases.listDocuments(DB_ID, COLS.REFS, ...) returns
RefsReturns(b) ==
    LET p == proc[b]
        d == data[b]
    IN  /\ p.pc = "awaitRefs"
        /\ LET refs == JArray(RefDirectory(p.cur.loinc))
               q == [p EXCEPT !.refCache = CachePut(@, KeyOf(p.cur.loinc), refs)]
           IN  SetProc(b, WithRefs(q, d, refs))
        /\ UNCHANGED <<data, observations, reports, audits, incoming, log, call, ret>>

\* the range lookup throws
RefsThrows(b) ==
    /\ proc[b].pc = "awaitRefs"
    /\ ItemCatch(b)

\* LoopEnd committing what was processed whatever the errors
LoopEnd_CommitAnyway(b) ==
    LET p == proc[b]
        d == data[b]
    IN  /\ p.pc = "loop"
        /\ p.idx > Len(d.result)
        /\ SetProc(b, [p EXCEPT !.pc =
                IF Len(p.processedTests) # 0 THEN "awaitObs"
                ELSE IF Len(p.errors) # 0 THEN UpdatePc(d, "awaitRejectedUpdate")
                ELSE "awaitReport"])
        /\ UNCHANGED <<data, observations, reports, audits, incoming, log, call, ret>>

\* LoopEnd returning straight away when there are errors, without the
\* update of the incoming document
LoopEnd_Abandon(b) ==
    LET p == proc[b]
        d == data[b]
    IN  /\ p.pc = "loop"
        /\ p.idx > Len(d.result)
        /\ SetProc(b, [p EXCEPT !.pc =
                IF Len(p.errors) # 0 THEN "done"
                ELSE IF Len(p.processedTests) # 0 THEN "awaitObs"
                ELSE "awaitReport"])
        /\ UNCHANGED <<data, observations, reports, audits, incoming, log, call, ret>>

\* after the loop: if (errors.length) reject, else start the commit
LoopEnd(b) ==
    LET p == proc[b]
        d == data[b]
    IN  /\ p.pc = "loop"
        /\ p.idx > Len(d.result)
        /\ SetProc(b, [p EXCEPT !.pc =
                IF Len(p.errors) # 0 THEN UpdatePc(d, "awaitRejectedUpdate")
                ELSE IF Len(p.processedTests) # 0 THEN "awaitObs"
                ELSE "awaitReport"])
        /\ UNCHANGED <<data, observations, reports, audits, incoming, log, call, ret>>

\* ID.unique() for a new document of a collection
NewId(name, collection) == [c |-> name, n |-> Len(collection) + 1]

\* CreateObservationReturns going on to the report after the first
\* observation
CreateObservationReturns_First(b) ==
    LET p == proc[b]
        d == data[b]
        obs == p.processedTests[Len(p.obsIds) + 1]
        id == NewId("obs", observations)
    IN  /\ p.pc = "awaitObs"
        /\ observations' = Append(observations,
                [id |-> id, loincCode |-> obs.loinc, patientId |-> d.P_id,
                 value |-> obs.value, unit |-> obs.unit,
                 abnormalFlag |-> obs.interpretation, rawTest |-> obs])
        /\ SetProc(b, [p EXCEPT !.obsIds = Append(@, id),
                                !.pc = "awaitReport"])
        /\ UNCHANGED <<data, reports, audits, incoming, log, call, ret>>

\* await databases.createDocument(DB_ID, COLS.OBS, ...) returns
CreateObservationReturns(b) ==
    LET p == proc[b]
        d == data[b]
        obs == p.processedTests[Len(p.obsIds) + 1]
        id == NewId("obs", observations)
    IN  /\ p.pc = "awaitObs"
        /\ observations' = Append(observations,
                [id |-> id, loincCode |-> obs.loinc, patientId |-> d.P_id,
                 value |-> obs.value, unit |-> obs.unit,
                 abnormalFlag |-> obs.interpretation, rawTest |-> obs])
        /\ SetProc(b, [p EXCEPT !.obsIds = Append(@, id),
                !.pc = IF Len(p.obsIds) + 1 < Len(p.processedTests)
                       THEN "awaitObs" ELSE "awaitReport"])
        /\ UNCHANGED <<data, reports, audits, incoming, log, call, ret>>

\* await databases.createDocument(DB_ID, COLS.REPORTS, ...) returns
CreateReportReturns(b) ==
    LET p == proc[b]
        id == NewId("report", reports)
    IN  /\ p.pc = "awaitReport"
        /\ reports' = Append(reports,
                [id |-> id, patientId |-> data[b].P_id,
                 observationIds |-> p.obsIds, status |-> "final"])
        /\ SetProc(b, [p EXCEPT !.reportId = id, !.pc = "awaitAudit"])
        /\ UNCHANGED <<data, observations, audits, incoming, log, call, ret>>

\* await databases.createDocument(DB_ID, COLS.AUDIT, ...) returns
CreateAuditReturns(b) ==
    LET p == proc[b]
    IN  /\ p.pc = "awaitAudit"
        /\ audits' = Append(audits,
                [id |-> NewId("audit", audits), patientId |-> data[b].P_id,
                 action |-> "create_diagnostic_report",
                 targetId |-> p.reportId])
        /\ SetProc(b, [p EXCEPT !.pc =
                UpdatePc(data[b], "awaitValidatedUpdate")])
        /\ UNCHANGED <<data, observations, reports, incoming, log, call, ret>>

\* a createDocument of the commit throws: the outer catch (err)
CommitThrows(b) ==
    LET p == proc[b]
    IN  /\ p.pc \in {"awaitObs", "awaitReport", "awaitAudit"}
        /\ log' = [log EXCEPT ![b] =
                @ \cup {"Create observations/report failed"}]
        /\ SetProc(b, [p EXCEPT !.err = "create failed",
                !.pc = UpdatePc(data[b], "awaitErrorUpdate")])
        /\ UNCHANGED <<data, observations, reports, audits, incoming, call, ret>>

\* UpdateFields recording a failed commit as a rejection
UpdateFields_ErrorAsRejected(p) ==
    CASE p.pc = "awaitEmptyUpdate" -> [status |-> "validated"]
      [] p.pc = "awaitRejectedUpdate" ->
            [status |-> "rejected", errors |-> p.errors]
      [] p.pc = "awaitValidatedUpdate" ->
            [status |-> "validated", reportId |-> p.reportId]
      [] p.pc = "awaitErrorUpdate" ->
            [status |-> "rejected", errors |-> p.errors]

\* the fields one updateDocument(DB_ID, COLS.INCOMING, ...) sets
UpdateFields(p) ==
    CASE p.pc = "awaitEmptyUpdate" -> [status |-> "validated"]
      [] p.pc = "awaitRejectedUpdate" ->
            [status |-> "rejected", errors |-> p.errors]
      [] p.pc = "awaitValidatedUpdate" ->
            [status |-> "validated", reportId |-> p.reportId]
      [] p.pc = "awaitErrorUpdate" -> [status |-> "error", error |-> p.err]

UpdatePcs ==
    {"awaitEmptyUpdate", "awaitRejectedUpdate", "awaitValidatedUpdate",
     "awaitErrorUpdate"}

\* await databases.updateDocument(DB_ID, COLS.INCOMING, ...) returns
UpdateIncomingReturns(b) ==
    LET p == proc[b]
    IN  /\ p.pc \in UpdatePcs
        /\ incoming' = [incoming EXCEPT ![b] = UpdateFields(p) @@ @]
        /\ SetProc(b, [p EXCEPT !.pc = "done"])
        /\ UNCHANGED <<data, observations, reports, audits, log, call, ret>>

\* that update throws: caught and logged, the run ends
UpdateIncomingThrows(b) ==
    LET p == proc[b]
    IN  /\ p.pc \in UpdatePcs
        /\ log' = [log EXCEPT ![b] = @ \cup {"Failed to update INCOMING doc"}]
        /\ SetProc(b, [p EXCEPT !.pc = "done"])
        /\ UNCHANGED <<data, observations, reports, audits, incoming, call, ret>>

\* one step of the run of batch b
Step(b) ==
    \/ Start(b)
    \/ ItemStart(b)
    \/ MappingReturns(b)
    \/ MappingThrows(b)
    \/ RefsReturns(b)
    \/ RefsThrows(b)
    \/ LoopEnd(b)
    \/ CreateObservationReturns(b)
    \/ CreateReportReturns(b)
    \/ CreateAuditReturns(b)
    \/ CommitThrows(b)
    \/ UpdateIncomingReturns(b)
    \/ UpdateIncomingThrows(b)

Next == \E b \in BatchIds : Step(b)

Spec == Init /\ [][Next]_vars

\* every await of a run is eventually resumed, the call returning or
\* throwing: WF_vars(Step(b)) for a started run, its
\* ENABLED <<Step(b)>>_vars written out (a step is possible at every
\* position but "done")
Resumed(b) ==
    []<>(proc[b].pc \in {"idle", "done"}) \/ []<><<Step(b)>>_vars

\* the runtime calls main, and every await of the run is resumed
SpecLive ==
    Init /\ [][Next]_vars /\ \A b \in BatchIds : WF_vars(Start(b)) /\ Resumed(b)

(***************************************************************************)
(* Two runs of processLabResults at once (main called for two payloads):   *)
(* their steps interleave at every await.                                  *)
(***************************************************************************)
TwoBatches == {1, 2}

\* the readings and the patients of the two batches
IsolationItems ==
    {Item(T_glu, JStr(<<"7">>), <<" ">> \o ToUpperCase(U_mmol_l) \o <<" ">>),
     Item(T_unm, JInt(126), U_mg_dl)}
IsolationPatients ==
    <<[sex |-> JStr(<<"f">>), P_sex |-> JUndef, P_gender |-> JUndef,
       P_age |-> JInt(30)],
      [sex |-> JUndef, P_sex |-> JUndef, P_gender |-> JUndef,
       P_age |-> JInt(10)]>>
IsolationLists == SeqsUpTo(IsolationItems, MaxItems)

InitTwo ==
    /\ \E rs \in [TwoBatches -> IsolationLists] :
            data = [b \in TwoBatches |->
                        Payload(b, IsolationPatients[b], rs[b])]
    /\ proc = [b \in TwoBatches |-> InitProc]
    /\ observations = <<>>
    /\ reports = <<>>
    /\ audits = <<>>
    /\ incoming = [b \in TwoBatches |-> InitIncoming]
    /\ log = [b \in TwoBatches |-> {}]
    /\ call = NoCall
    /\ ret = NoRet

NextTwo == \E b \in TwoBatches : Step(b)

SpecTwo == InitTwo /\ [][NextTwo]_vars

(***************************************************************************)
(* Direct calls of the pure functions, over enumerated arguments.          *)
(***************************************************************************)
\* every token normalizeUnit can return from the table
CanonicalTokens == {canonical[k] : k \in DOMAIN canonical}

\* unit strings handed to normalizeUnit: the table's keys as written, the
\* tokens, upper-cased and padded spellings, and strings outside the table
UnitInputs ==
    LET base == DOMAIN canonical \cup CanonicalTokens
    IN  base
        \cup {ToUpperCase(u) : u \in base}
        \cup {<<" ">> \o u \o <<" ", "\t">> : u \in base}
        \cup {<<>>, <<" ">>, <<"x", "y", "z">>, U_constructor}

\* values and bounds handed to the classifier
ClassifyValues == {30, 40, 50, 70, 90, 110, 200, 400, 450}
LowBounds == {JUndef, JNull, JInt(70)}
HighBounds == {JUndef, JInt(110)}
CritLowBounds == {JUndef, JInt(40), JInt(90)}
CritHighBounds == {JUndef, JInt(400), JInt(90)}

ClassifyRefs ==
    {RefDoc(JUndef, JUndef, JUndef, JUndef, lo, hi, cl, ch) :
        lo \in LowBounds, hi \in HighBounds,
        cl \in CritLowBounds, ch \in CritHighBounds}

ConvertValues == {Rat(0, 1), Rat(7, 1), Rat(126, 1), Rat(13, 10), Rat(0 - 5, 2)}
\* the units of a conversion: the canonical tokens and the unit of a mapping
\* that spells its default unit in lower case
ConvertUnits == CanonicalTokens \cup {U_mg_dl}

\* range lists and patients handed to the selection of a range: sex under
\* either field name and in either case, U explicit or by default, age
\* bounds absent, null, numbers or numeric strings
MaxRefs == 2
FindRanges ==
    {RefDoc(JStr(<<"F">>), JUndef, JInt(18), JInt(65),
            JInt(70), JInt(110), JUndef, JUndef),
     RefDoc(JUndef, JStr(<<"m">>), JInt(18), JNull,
            JInt(75), JInt(115), JUndef, JUndef),
     RefDoc(JStr(<<"U">>), JUndef, JUndef, JUndef,
            JInt(60), JInt(120), JUndef, JUndef),
     RefDoc(JUndef, JUndef, JNull, JInt(17),
            JInt(50), JInt(100), JUndef, JUndef),
     RefDoc(JStr(<<"f">>), JUndef, JStr(<<"6", "6">>), JUndef,
            JInt(80), JInt(130), JUndef, JUndef)}
FindPatients ==
    {[sex |-> x[1], P_sex |-> x[2], P_gender |-> JUndef, P_age |-> a] :
        x \in {<<JStr(<<"f">>), JUndef>>, <<JUndef, JStr(<<"M">>)>>,
               <<JUndef, JUndef>>},
        a \in {JInt(10), JInt(18), JInt(65), JStr(<<"7", "0">>)}}

\* one iteration of the item loop from the mapping on: the raw units (an
\* alias of every token) and raw values of the item
ItemCallUnits == {U_g_dl, U_gl, U_mg_dl, U_mmol_l, U_iu_l, U_pct}
ItemCallValues == {JInt(126), JStr(<<"7">>)}

FnCalls ==
    {[fn |-> "Interpret", matchedRef |-> r, finalValue |-> JInt(v)] :
        r \in ClassifyRefs, v \in ClassifyValues}
    \cup {[fn |-> "Interpret", matchedRef |-> r, finalValue |-> v] :
        r \in {JUndef, RefDoc(JUndef, JUndef, JUndef, JUndef,
                              JInt(70), JInt(110), JInt(40), JInt(400))},
        v \in {JInt(90), JStr(<<"a", "b", "c">>), JStr(<<>>)}}
    \cup {[fn |-> "normalizeUnit", u |-> u] : u \in UnitInputs}
    \cup {[fn |-> "convertIfNeeded", value |-> x, fromUnit |-> JStr(f),
           toUnit |-> JStr(g)] :
        x \in ConvertValues, f \in ConvertUnits, g \in ConvertUnits}
    \cup {[fn |-> "FindRef", refs |-> r, patient |-> q] :
        r \in SeqsUpTo(FindRanges, MaxRefs), q \in FindPatients}
    \cup {[fn |-> "WithMapping", t |-> Item(T_glu, v, u),
           mapping |-> MappingDoc(JStr(L_glu), JUndef, JUndef, JStr(g),
                                  JUndef, JUndef)] :
        v \in ItemCallValues, u \in ItemCallUnits, g \in CanonicalTokens}

InitFn ==
    /\ data = [b \in BatchIds |-> Payload(b, CHOOSE p \in Patients : TRUE, <<>>)]
    /\ proc = [b \in BatchIds |-> InitProc]
    /\ observations = <<>>
    /\ reports = <<>>
    /\ audits = <<>>
    /\ incoming = [b \in BatchIds |-> InitIncoming]
    /\ log = [b \in BatchIds |-> {}]
    /\ call \in FnCalls
    /\ ret = NoRet

CallInterpret ==
    /\ call.fn = "Interpret"
    /\ ~ret.done
    /\ ret' = [done |-> TRUE,
               v |-> Interpret(call.matchedRef, call.finalValue)]
    /\ UNCHANGED <<batchVars, call>>

CallNormalizeUnit ==
    /\ call.fn = "normalizeUnit"
    /\ ~ret.done
    /\ ret' = [done |-> TRUE, v |-> normalizeUnit(call.u)]
    /\ UNCHANGED <<batchVars, call>>

CallConvertIfNeeded ==
    /\ call.fn = "convertIfNeeded"
    /\ ~ret.done
    /\ ret' = [done |-> TRUE,
               v |-> convertIfNeeded(call.value, call.fromUnit, call.toUnit)]
    /\ UNCHANGED <<batchVars, call>>

\* the value convertIfNeeded returned, handed to convertIfNeeded in the
\* opposite direction
CallConvertBack ==
    /\ call.fn = "convertIfNeeded"
    /\ ret.done
    /\ "back" \notin DOMAIN ret
    /\ ~ret.v.threw
    /\ ret' = [done |-> TRUE, v |-> ret.v,
               back |-> convertIfNeeded(ret.v.value, call.toUnit,
                                        call.fromUnit)]
    /\ UNCHANGED <<batchVars, call>>

\* the first iteration of the loop of a batch holding t, once its mapping
\* lookup has returned mapping
CallWithMapping ==
    /\ call.fn = "WithMapping"
    /\ ~ret.done
    /\ ret' = [done |-> TRUE,
               v |-> WithMapping([InitProc EXCEPT !.pc = "awaitMapping"],
                                 Payload(1, CHOOSE p \in Patients : TRUE,
                                         <<call.t>>),
                                 call.mapping)]
    /\ UNCHANGED <<batchVars, call>>

\* refs.find(...) for the sex and age processLabResults derives from the
\* payload
CallFindRef ==
    /\ call.fn = "FindRef"
    /\ ~ret.done
    /\ ret' = [done |-> TRUE,
               v |-> FindRef(call.refs, sex(call.patient),
                             patientAge(call.patient))]
    /\ UNCHANGED <<batchVars, call>>

NextFn ==
    \/ CallInterpret
    \/ CallFindRef
    \/ CallNormalizeUnit
    \/ CallConvertIfNeeded
    \/ CallConvertBack
    \/ CallWithMapping

SpecFn == InitFn /\ [][NextFn]_vars

(***************************************************************************)
(* main: the payload readPayload returned, the guards, preprocessPayload,  *)
(* validateIncoming (the compiled incomingSchema), and the run of          *)
(* processLabResults it schedules.  A payload is a JavaScript value; an    *)
(* object payload is a record of the properties the guards, the            *)
(* preprocessing and the run read, JUndef for a property it lacks.         *)
(***************************************************************************)
COLS_INCOMING == <<"6", "7", "e", "f", "b", "4", "5", "5", "0", "0", "3", "0", "2", "f", "e", "3", "b", "d", "9", "8">>
COLS_OBS == <<"o", "b", "s", "e", "r", "v", "a", "t", "i", "o", "n", "s">>

\* payload.name, undefined on a value that is not an object
Prop(v, name) == IF v.t = "object" THEN v[name] ELSE JUndef

\* { name: fallback, ...data }: the property of data when it has one
Spread(raw, name, fallback) ==
    IF raw[name] # JUndef THEN raw[name] ELSE fallback

\* new Date().toISOString()
Now == <<"2", "0", "2", "6", "-", "0", "1", "-", "0", "1", "T", "0", "0", ":", "0", "0", ":", "0", "0", ".", "0", "0", "0", "Z">>
\* ID.unique()
UniqueId == JStr(<<"u", "1">>)

\* format: "date-time" on the strings of the model: dddd-dd-ddTdd:dd:ddZ,
\* with or without milliseconds
DateTimeShapes ==
    {<<"d", "d", "d", "d", "-", "d", "d", "-", "d", "d", "T", "d", "d", ":", "d", "d", ":", "d", "d", "Z">>,
     <<"d", "d", "d", "d", "-", "d", "d", "-", "d", "d", "T", "d", "d", ":", "d", "d", ":", "d", "d", ".", "d", "d", "d", "Z">>}
IsDateTime(s) ==
    \E shape \in DateTimeShapes :
        /\ Len(s) = Len(shape)
        /\ \A i \in DOMAIN shape :
            IF shape[i] = "d" THEN IsDigit(s[i]) ELSE s[i] = shape[i]

RawItem(localTestId, value, unit, timestamp) ==
    [t |-> "object", localTestId |-> localTestId, value |-> value,
     unit |-> unit, timestamp |-> timestamp, notes |-> JUndef]

RawPayload(collectionId, P_name, P_age, P_id, healthsecterid, createdAt, result) ==
    [t |-> "object", collectionId |-> collectionId, id |-> JStr(<<"d", "1">>),
     incomingDocId |-> JUndef, P_name |-> P_name, patientName |-> JUndef,
     P_age |-> P_age, patientAge |-> JUndef, P_id |-> P_id,
     patientId |-> JUndef, healthsecterid |-> healthsecterid,
     healthSectorId |-> JUndef, doc_name |-> JUndef, submittedBy |-> JUndef,
     staff_name |-> JUndef, createdAt |-> createdAt, submittedAt |-> JUndef,
     sex |-> JStr(<<"f">>), P_sex |-> JUndef, P_gender |-> JUndef,
     result |-> result]

\* preprocessPayload(data): the defaults, then ...data over them, then
\* submittedBy, submittedAt and incomingDocId
preprocessPayload(raw) ==
    [t |-> "object",
     P_name |-> Spread(raw, "P_name",
                    Or(Or(raw.P_name, raw.patientName),
                       JStr(<<"U", "n", "k", "n", "o", "w", "n">>))),
     P_age |-> Spread(raw, "P_age",
                    Or(Or(raw.P_age, raw.patientAge), JInt(0))),
     P_id |-> Spread(raw, "P_id",
                    Or(Or(raw.P_id, raw.patientId), UniqueId)),
     result |-> Spread(raw, "result",
                    IF raw.result.t = "array" THEN raw.result
                    ELSE [t |-> "array", items |-> <<>>]),
     doc_name |-> Spread(raw, "doc_name",
                    Or(Or(Or(raw.doc_name, raw.submittedBy),
                          raw.staff_name),
                       JStr(<<"U", "n", "k", "n", "o", "w", "n">>))),
     createdAt |-> Spread(raw, "createdAt",
                    Or(Or(raw.createdAt, raw.submittedAt), JStr(Now))),
     healthsecterid |-> Spread(raw, "healthsecterid",
                    Or(Or(raw.healthsecterid, raw.healthSectorId),
                       JStr(<<"u", "n", "k", "n", "o", "w", "n">>))),
     collectionId |-> raw.collectionId, id |-> raw.id,
     patientName |-> raw.patientName, patientAge |-> raw.patientAge,
     patientId |-> raw.patientId, healthSectorId |-> raw.healthSectorId,
     staff_name |-> raw.staff_name, sex |-> raw.sex, P_sex |-> raw.P_sex,
     P_gender |-> raw.P_gender,
     submittedBy |-> Or(Or(Or(raw.doc_name, raw.submittedBy),
                           raw.staff_name),
                        JStr(<<"U", "n", "k", "n", "o", "w", "n">>)),
     submittedAt |-> Or(Or(raw.createdAt, raw.submittedAt), JStr(Now)),
     incomingDocId |-> Or(Or(raw.id, raw.incomingDocId), UniqueId)]

\* a property of the schema: absent, or of one of the types (and a
\* date-time when the schema gives the format)
HasType(v, types) == v = JUndef \/ v.t \in types
HasFormat(v) == v.t = "string" => IsDateTime(v.s)

\* items: { type: "object", required: [...], properties: {...} }
ValidItem(x) ==
    /\ x.t = "object"
    /\ x.localTestId # JUndef
    /\ x.value # JUndef
    /\ x.unit # JUndef
    /\ x.timestamp # JUndef
    /\ HasType(x.localTestId, {"string"})
    /\ HasType(x.unit, {"string"})
    /\ HasType(x.timestamp, {"string"})
    /\ HasFormat(x.timestamp)
    /\ HasType(x.notes, {"string"})

\* validateIncoming(data), data an object
validateIncoming(raw) ==
    /\ \A name \in {"P_name", "P_age", "P_id", "submittedBy", "submittedAt",
                    "healthsecterid"} : raw[name] # JUndef
    /\ HasType(raw.P_name, {"string"})
    /\ HasType(raw.P_age, {"number", "string"})
    /\ HasType(raw.P_id, {"string"})
    /\ HasType(raw.doc_name, {"string"})
    /\ HasType(raw.healthsecterid, {"string"})
    /\ HasType(raw.staff_name, {"string"})
    /\ HasType(raw.submittedBy, {"string"})
    /\ HasType(raw.submittedAt, {"string"})
    /\ HasFormat(raw.submittedAt)
    /\ HasType(raw.incomingDocId, {"string"})
    /\ HasType(raw.createdAt, {"string"})
    /\ HasFormat(raw.createdAt)
    /\ HasType(raw.result, {"array"})
    /\ raw.result.t = "array"
        => \A i \in DOMAIN raw.result.items : ValidItem(raw.result.items[i])

\* the validated data as the run of processLabResults reads it
RunData(b, raw) ==
    Payload(b, [sex |-> raw.sex, P_sex |-> raw.P_sex,
                P_gender |-> raw.P_gender, P_age |-> raw.P_age],
            [i \in DOMAIN raw.result.items |->
                Item(raw.result.items[i].localTestId.s,
                     raw.result.items[i].value,
                     raw.result.items[i].unit.s)])

Refused(reason) == [ok |-> FALSE, reason |-> reason]

\* main without the test of payload.$collectionId against COLS.INCOMING
main_AnyCollection(b) ==
    LET payload == call.payload
    IN  /\ call.fn = "main"
        /\ ~ret.done
        /\ proc[b].pc = "unstarted"
        /\ IF Falsy(payload)
           THEN /\ ret' = [done |-> TRUE, v |-> Refused("Empty payload")]
                /\ UNCHANGED <<data, proc>>
           ELSE IF Falsy(Prop(payload, "collectionId"))
           THEN /\ ret' = [done |-> TRUE,
                           v |-> Refused("Missing $collectionId")]
                /\ UNCHANGED <<data, proc>>
           ELSE IF ~validateIncoming(preprocessPayload(payload))
           THEN /\ ret' = [done |-> TRUE, v |-> Refused("schema")]
                /\ UNCHANGED <<data, proc>>
           ELSE /\ ret' = [done |-> TRUE,
                           v |-> [ok |-> TRUE, status |-> "processing",
                                  incomingDocId |->
                                    preprocessPayload(payload).incomingDocId]]
                /\ data' = [data EXCEPT
                                ![b] = RunData(b, preprocessPayload(payload))]
                /\ SetProc(b, [proc[b] EXCEPT !.pc = "idle"])
        /\ UNCHANGED <<observations, reports, audits, incoming, log, call>>

\* export default async function main(): the guards, the response, and
\* process.nextTick(() => processLabResults(data))
main(b) ==
    LET payload == call.payload
    IN  /\ call.fn = "main"
        /\ ~ret.done
        /\ proc[b].pc = "unstarted"
        /\ IF Falsy(payload)
           THEN /\ ret' = [done |-> TRUE, v |-> Refused("Empty payload")]
                /\ UNCHANGED <<data, proc>>
           ELSE IF Falsy(Prop(payload, "collectionId"))
           THEN /\ ret' = [done |-> TRUE,
                           v |-> Refused("Missing $collectionId")]
                /\ UNCHANGED <<data, proc>>
           ELSE IF Prop(payload, "collectionId") # JStr(COLS_INCOMING)
           THEN /\ ret' = [done |-> TRUE, v |-> Refused("Wrong collection")]
                /\ UNCHANGED <<data, proc>>
           ELSE IF ~validateIncoming(preprocessPayload(payload))
           THEN /\ ret' = [done |-> TRUE, v |-> Refused("schema")]
                /\ UNCHANGED <<data, proc>>
           ELSE /\ ret' = [done |-> TRUE,
                           v |-> [ok |-> TRUE, status |-> "processing",
                                  incomingDocId |->
                                    preprocessPayload(payload).incomingDocId]]
                /\ data' = [data EXCEPT
                                ![b] = RunData(b, preprocessPayload(payload))]
                /\ SetProc(b, [proc[b] EXCEPT !.pc = "idle"])
        /\ UNCHANGED <<observations, reports, audits, incoming, log, call>>

\* the readings of a payload: well-formed ones, one without timestamp, one
\* whose unit is a number, one whose timestamp is no date-time, and a
\* reading that is no object
MainItems ==
    {RawItem(JStr(T_glu), JInt(126), JStr(U_mg_dl), JStr(Now)),
     RawItem(JStr(T_glu), JStr(<<"7">>), JStr(U_mmol_l), JStr(Now)),
     RawItem(JStr(T_unm), JNull, JStr(<<>>), JStr(Now)),
     RawItem(JStr(T_glu), JInt(126), JStr(U_mg_dl), JUndef),
     RawItem(JStr(T_glu), JInt(126), JInt(1), JStr(Now)),
     RawItem(JStr(T_glu), JInt(126), JStr(U_mg_dl), JStr(<<"x">>)),
     JNull}

MainResults ==
    {JUndef, JNull, JStr(<<"x">>)}
    \cup {[t |-> "array", items |-> r] : r \in SeqsUpTo(MainItems, MaxItems)}

\* what readPayload may return: nothing usable (null, 0, {} after a parse
\* failure or without input), a number, and documents of the INCOMING
\* collection, of another collection or of none, their required fields
\* present, absent or of a wrong type
MainPayloads ==
    {JNull, JInt(0), JInt(5),
     RawPayload(JUndef, JUndef, JUndef, JUndef, JUndef, JUndef, JUndef)}
    \cup {RawPayload(c, JStr(<<"n">>), JInt(30), JStr(<<"p">>),
                     JStr(<<"h">>), JUndef, r) :
            c \in {JUndef, JStr(<<>>), JStr(COLS_INCOMING), JStr(COLS_OBS)},
            r \in MainResults}
    \cup {RawPayload(JStr(COLS_INCOMING), n, a, i, h, ca,
                     [t |-> "array", items |-> <<>>]) :
            n \in {JUndef, JInt(1), JStr(<<"n">>)},
            a \in {JUndef, JNull, JStr(<<"7", "0">>)},
            i \in {JUndef, JInt(7), JStr(<<"p">>)},
            h \in {JUndef, JNull},
            ca \in {JUndef, JStr(Now), JStr(<<"x">>)}}

InitMain ==
    /\ data = [b \in BatchIds |-> Payload(b, CHOOSE p \in Patients : TRUE, <<>>)]
    /\ proc = [b \in BatchIds |-> [InitProc EXCEPT !.pc = "unstarted"]]
    /\ observations = <<>>
    /\ reports = <<>>
    /\ audits = <<>>
    /\ incoming = [b \in BatchIds |-> InitIncoming]
    /\ log = [b \in BatchIds |-> {}]
    /\ call \in {[fn |-> "main", payload |-> x] : x \in MainPayloads}
    /\ ret = NoRet

NextMain == \E b \in BatchIds : main(b) \/ Step(b)

SpecMain == InitMain /\ [][NextMain]_vars

(***************************************************************************)
(* Properties.                                                             *)
(***************************************************************************)
\* the mapping the directory holds for an item, as the code would read it
DirMapping(t) ==
    LET documents == MappingDirectory(t.localTestId)
    IN  IF documents # <<>> THEN documents[1] ELSE JNull

\* the three ways the code fails an item without any lookup throwing
FailsResolution(t) == DirMapping(t) = JNull
FailsUnit(t) == normalizeUnit(t.unit) = JNull
FailsConversion(t) ==
    /\ ~FailsResolution(t)
    /\ ~FailsUnit(t)
    /\ ~IsNaN(Number(t.value))
    /\ getDefaultUnitFromMapping(DirMapping(t)) # JNull
    /\ normalizeUnit(t.unit) # getDefaultUnitFromMapping(DirMapping(t))
    /\ convertIfNeeded(RatOf(Number(t.value)), normalizeUnit(t.unit),
                       getDefaultUnitFromMapping(DirMapping(t))).threw
\* the raw readings the code fails, by the reason it gives
ResolutionFailures == {t \in Items : FailsResolution(t)}
UnitFailures == {t \in Items : ~FailsResolution(t) /\ FailsUnit(t)}
ConversionFailures == {t \in Items : FailsConversion(t)}
FailingItems ==
    {t \in Items :
        t \in ResolutionFailures \cup UnitFailures \cup ConversionFailures}

\* the documents of batch b in a collection, in creation order
OfBatch(collection, b) == SelectSeq(collection, LAMBDA x : x.patientId = b)

CommitPcs ==
    {"awaitObs", "awaitReport", "awaitAudit", "awaitValidatedUpdate",
     "awaitErrorUpdate"}
LoopPcs == {"idle", "loop", "awaitMapping", "awaitRefs"}

\* C3: for a numeric value and a selected range with any of its four bounds
\* present or absent, the flag is CRIT_LOW if criticalLow exists and the
\* value is below it, else CRIT_HIGH if criticalHigh exists and the value
\* is above it, else L if low exists and the value is below it, else H if
\* high exists and the value is above it, else N; on the range 70..110
\* with critical bounds 40 and 400 the values 30, 450, 50, 200, 90 give
\* CRIT_LOW, CRIT_HIGH, L, H, N; a value equal to a bound does not fire it.
C3_Has(bound) == bound.t = "number"
C3_Flag(r, v) ==
    IF C3_Has(r.criticalLow) /\ v < r.criticalLow.num THEN "CRIT_LOW"
    ELSE IF C3_Has(r.criticalHigh) /\ v > r.criticalHigh.num THEN "CRIT_HIGH"
    ELSE IF C3_Has(r.low) /\ v < r.low.num THEN "L"
    ELSE IF C3_Has(r.high) /\ v > r.high.num THEN "H"
    ELSE "N"
C3_ExampleRange ==
    RefDoc(JUndef, JUndef, JUndef, JUndef, JInt(70), JInt(110), JInt(40),
           JInt(400))
C3_ExampleFlags ==
    (30 :> "CRIT_LOW") @@ (450 :> "CRIT_HIGH") @@ (50 :> "L")
        @@ (200 :> "H") @@ (90 :> "N")
C3_Classifier ==
    (/\ call.fn = "Interpret"
     /\ ret.done
     /\ call.matchedRef # JUndef
     /\ call.finalValue.t = "number")
    => LET r == call.matchedRef
           v == call.finalValue.num
       IN  /\ ret.v = C3_Flag(r, v)
           /\ (r = C3_ExampleRange /\ v \in DOMAIN C3_ExampleFlags)
                => ret.v = C3_ExampleFlags[v]
           /\ (C3_Has(r.criticalLow) /\ v = r.criticalLow.num)
                => ret.v # "CRIT_LOW"
           /\ (C3_Has(r.criticalHigh) /\ v = r.criticalHigh.num)
                => ret.v # "CRIT_HIGH"
           /\ (C3_Has(r.low) /\ v = r.low.num) => ret.v # "L"
           /\ (C3_Has(r.high) /\ v = r.high.num) => ret.v # "H"

\* a critical and a normal bound both fire, and the critical flag wins
C3_Witness ==
    /\ call.fn = "Interpret"
    /\ ret.done
    /\ call.matchedRef = C3_ExampleRange
    /\ call.finalValue = JInt(30)
    /\ ret.v = "CRIT_LOW"

\* C10: normalizeUnit applied to a canonical unit token (g/dL, g/L, mg/dL,
\* mmol/L, IU/L, %) returns that token.
C10_IdempotentCanonicalization ==
    (call.fn = "normalizeUnit" /\ ret.done /\ call.u \in CanonicalTokens)
    => ret.v = JStr(call.u)

\* C12: for every input string normalizeUnit returns null or one of the
\* canonical tokens of the alias table, and it returns null for the empty
\* string and for every input whose trimmed, lower-cased form is not an
\* alias of the table.
C12_NullOrToken ==
    (call.fn = "normalizeUnit" /\ ret.done)
    => /\ \/ ret.v = JNull
          \/ ret.v.t = "string" /\ ret.v.s \in CanonicalTokens
       /\ call.u = <<>> => ret.v = JNull
       /\ ToLowerCase(Trim(call.u)) \notin DOMAIN canonical => ret.v = JNull

\* the ordered pairs of units of the factor table
C13_FactorTable ==
    {<<U_g_dL, U_g_L>>, <<U_g_L, U_g_dL>>, <<U_mg_dL, U_g_L>>,
     <<U_g_L, U_mg_dL>>, <<U_mg_dL, U_mmol_L>>, <<U_mmol_L, U_mg_dL>>}
C13_Unsupported(f, g) == f # g /\ <<f, g>> \notin C13_FactorTable

\* C13: for every ordered pair of distinct canonical units outside the
\* factor table convertIfNeeded signals "Unsupported conversion", and for
\* no other pair; an iteration of the item loop that gets this signal adds
\* exactly one error (Conversion failed) for its item, appends no
\* observation and goes on to the next item.
C13_UnsupportedRejectsItem ==
    /\ (call.fn = "convertIfNeeded" /\ ret.done)
        => /\ ret.v.threw <=> C13_Unsupported(call.fromUnit.s, call.toUnit.s)
           /\ ret.v.threw => ret.v.message = "Unsupported conversion"
    /\ (/\ call.fn = "WithMapping"
        /\ ret.done
        /\ ~IsNaN(Number(call.t.value))
        /\ C13_Unsupported(normalizeUnit(call.t.unit).s,
                           call.mapping.defaultUnitUCUM.s))
        => /\ ret.v.errors =
                <<[localTestId |-> call.t.localTestId,
                   reason |-> "Conversion failed"]>>
           /\ ret.v.processedTests = <<>>
           /\ ret.v.pc = "loop"
           /\ ret.v.idx = 2

\* a numeric reading in % for a test whose mapping declares mg/dL: one
\* error, no observation, the loop at its next item
C13_Witness ==
    /\ call.fn = "WithMapping"
    /\ ret.done
    /\ call.t.value = JInt(126)
    /\ call.t.unit = U_pct
    /\ call.mapping.defaultUnitUCUM = JStr(U_mg_dL)
    /\ Len(ret.v.errors) = 1
    /\ ret.v.idx = 2

\* the sex of a range (U when it names none) and of a patient (U when the
\* payload names none), the patient's age and a present age bound as
\* integers
C14_RangeSex(r) ==
    IF r.sex.t = "string" THEN r.sex.s
    ELSE IF r.gender.t = "string" THEN r.gender.s
    ELSE <<"U">>
C14_PatientSex(q) ==
    IF q.sex.t = "string" THEN q.sex.s
    ELSE IF q.P_sex.t = "string" THEN q.P_sex.s
    ELSE IF q.P_gender.t = "string" THEN q.P_gender.s
    ELSE <<"U">>
C14_Int(v) == IF v.t = "string" THEN DecimalValue(v.s) ELSE v.num
C14_HasBound(v) == v.t \in {"number", "string"}
C14_Admits(r, q) ==
    /\ \/ ToLowerCase(C14_RangeSex(r)) = <<"u">>
       \/ ToLowerCase(C14_RangeSex(r)) = ToLowerCase(C14_PatientSex(q))
    /\ C14_HasBound(r.ageMin) => C14_Int(q.P_age) >= C14_Int(r.ageMin)
    /\ C14_HasBound(r.ageMax) => C14_Int(q.P_age) <= C14_Int(r.ageMax)

\* C14: the selected range is the first one in returned order whose sex is
\* U or equals the patient's sex, case-insensitively, and whose age bounds
\* admit the patient's age (no lower bound or age >= it, no upper bound or
\* age <= it); when no range satisfies both, none is selected.
C14_FirstAdmittingRange ==
    (call.fn = "FindRef" /\ ret.done)
    => IF \E i \in DOMAIN call.refs : C14_Admits(call.refs[i], call.patient)
       THEN \E i \in DOMAIN call.refs :
                /\ ret.v = call.refs[i]
                /\ C14_Admits(call.refs[i], call.patient)
                /\ \A j \in 1..(i - 1) :
                        ~C14_Admits(call.refs[j], call.patient)
       ELSE ret.v = JUndef

\* a range whose sex differs from the patient's only by case is selected
\* although a later range of the list admits the patient too
C14_Witness ==
    /\ call.fn = "FindRef"
    /\ ret.done
    /\ Len(call.refs) = 2
    /\ call.refs[1] # call.refs[2]
    /\ call.refs[1].sex = JStr(<<"F">>)
    /\ call.patient.sex = JStr(<<"f">>)
    /\ C14_Admits(call.refs[2], call.patient)
    /\ ret.v = call.refs[1]

\* a range that names a sex other than U; a range with both age bounds
C15_SexSpecific(r) == ToLowerCase(C14_RangeSex(r)) # <<"u">>
C15_AgeSpecific(r) == C14_HasBound(r.ageMin) /\ C14_HasBound(r.ageMax)
\* m is a more specific range than r: specific where r is, and specific in
\* sex or in age where r is a fallback
C15_MoreSpecific(m, r) ==
    /\ C15_SexSpecific(r) => C15_SexSpecific(m)
    /\ C15_AgeSpecific(r) => C15_AgeSpecific(m)
    /\ \/ C15_SexSpecific(m) /\ ~C15_SexSpecific(r)
       \/ C15_AgeSpecific(m) /\ ~C15_AgeSpecific(r)

\* C15: when several ranges of the list match the patient, the selected one
\* is never a fallback (sex U, or absent age bounds) for which the list
\* holds a more specific matching range, whatever the order of the list.
C15_FallbackNeverPreferred ==
    (call.fn = "FindRef" /\ ret.done /\ ret.v # JUndef)
    => \A i \in DOMAIN call.refs :
            C14_Admits(call.refs[i], call.patient)
            => ~C15_MoreSpecific(call.refs[i], ret.v)

C2_AtomicCommit ==
    \A b \in BatchIds :
        (/\ proc[b].pc = "done"
         /\ proc[b].errors = <<>>
         /\ Len(data[b].result) > 0)
        => \/ /\ Len(OfBatch(observations, b)) = Len(data[b].result)
              /\ proc[b].err = ""
           \/ OfBatch(observations, b) = <<>>

\* whether item k of batch b ended in the error list
C4_Failed(b, k) ==
    k \in proc[b].threw \/ data[b].result[k] \in FailingItems
C4_Reason(b, k) ==
    IF k \in proc[b].threw THEN "lookup failed"
    ELSE IF data[b].result[k] \in ResolutionFailures
        THEN "Missing mapping document"
    ELSE IF data[b].result[k] \in UnitFailures THEN "Unknown unit"
    ELSE "Conversion failed"
RECURSIVE C4_ExpectedErrors(_, _)
C4_ExpectedErrors(b, k) ==
    IF k = 0 THEN <<>>
    ELSE IF C4_Failed(b, k)
         THEN Append(C4_ExpectedErrors(b, k - 1),
                     [localTestId |-> data[b].result[k].localTestId,
                      reason |-> C4_Reason(b, k)])
         ELSE C4_ExpectedErrors(b, k - 1)

C5_AcceptedOrdered ==
    \A b \in BatchIds :
        LET mine == OfBatch(observations, b)
            p == proc[b]
            d == data[b]
        IN  /\ Len(mine) = Len(p.obsIds)
            /\ Len(mine) <= Len(d.result)
            /\ \A k \in DOMAIN mine :
                /\ mine[k].id = p.obsIds[k]
                /\ mine[k].rawTest = p.processedTests[k]
                /\ mine[k].rawTest.localTestId = d.result[k].localTestId
            /\ \A i \in DOMAIN reports :
                reports[i].patientId = b
                => /\ Len(mine) = Len(d.result)
                   /\ reports[i].observationIds =
                        [k \in 1..Len(d.result) |-> mine[k].id]
            /\ (/\ p.pc = "done"
                /\ Len(d.result) > 0
                /\ \A k \in DOMAIN d.result : ~C4_Failed(b, k)
                /\ p.err = "")
                => /\ Len(OfBatch(reports, b)) = 1
                   /\ Len(mine) = Len(d.result)

\* an accepted batch of two different items, committed
C5_Witness ==
    \E b \in BatchIds :
        /\ proc[b].pc = "done"
        /\ incoming[b].status = "validated"
        /\ Len(data[b].result) = 2
        /\ data[b].result[1].localTestId # data[b].result[2].localTestId
        /\ Len(OfBatch(reports, b)) = 1

\* an item without a usable resolution: no mapping record, or a record
\* that carries no canonical code
C6_NoCanonicalCode(t) ==
    DirMapping(t) = JNull \/ getLoincFromMapping(DirMapping(t)) = JNull

\* C6: every item whose local test identifier has no mapping record, or
\* whose mapping record carries no canonical code, is recorded in the
\* error list and produces no processed observation.
C6_ResolutionFailureRejected ==
    \A b \in BatchIds :
        \A k \in 1..(proc[b].idx - 1) :
            C6_NoCanonicalCode(data[b].result[k])
            => /\ \E i \in DOMAIN proc[b].errors :
                    proc[b].errors[i].localTestId =
                        data[b].result[k].localTestId
               /\ \A i \in DOMAIN proc[b].processedTests :
                    proc[b].processedTests[i].localTestId #
                        data[b].result[k].localTestId

\* C7: the unit of every processed observation is the canonical unit its
\* mapping declares when it declares one, for every raw value.
C7_OutputUnit ==
    \A b \in BatchIds :
        \A i \in DOMAIN proc[b].processedTests :
            LET o == proc[b].processedTests[i]
                canonicalUnit ==
                    getDefaultUnitFromMapping(
                        DirMapping([localTestId |-> o.localTestId]))
            IN  canonicalUnit # JNull => o.unit = canonicalUnit

\* C8: when a sink write of the commit (an observation, the report, the
\* audit record) fails, the batch is never recorded as rejected or
\* validated, the failure is logged, and the status update that follows
\* records status "error" with the failure message.  (When that update
\* throws too, the run has logged it and the status is untouched.)
C8_SinkFailureDistinct ==
    \A b \in BatchIds :
        /\ (proc[b].err # "" \/ proc[b].pc = "awaitErrorUpdate")
            => /\ proc[b].err # ""
               /\ proc[b].errors = <<>>
               /\ "Create observations/report failed" \in log[b]
               /\ incoming[b].status \in {"pending", "error"}
               /\ proc[b].pc \in {"awaitErrorUpdate", "done"}
               /\ proc[b].pc = "done"
                    => \/ /\ incoming[b].status = "error"
                          /\ incoming[b].error = proc[b].err
                       \/ /\ incoming[b].status = "pending"
                          /\ "Failed to update INCOMING doc" \in log[b]
        /\ incoming[b].status = "error" => proc[b].err # ""

\* the second observation's write failed and the failure was recorded
C8_Witness ==
    \E b \in BatchIds :
        /\ proc[b].pc = "done"
        /\ incoming[b].status = "error"
        /\ Len(OfBatch(observations, b)) = 1
        /\ Len(data[b].result) = 2

\* the place of item k among the items that did not fail
C9_Position(b, k) == Cardinality({j \in 1..k : ~C4_Failed(b, j)})

\* the pairs of a raw reading with a mapping and a patient for which no
\* range of the reading's canonical code matches the patient
C9_NoRangePairs ==
    {x \in {<<t, q>> : t \in Items, q \in Patients} :
        x[1] \notin ResolutionFailures /\
        FindRef(RefDirectory(getLoincFromMapping(DirMapping(x[1]))),
                sex(x[2]), patientAge(x[2])) = JUndef}
C9_NoRange(b, t) ==
    <<t, [sex |-> data[b].sex, P_sex |-> data[b].P_sex,
          P_gender |-> data[b].P_gender, P_age |-> data[b].P_age]>>
        \in C9_NoRangePairs

\* C9: an item resolved, canonicalized and converted successfully for
\* whose canonical code no reference range matches the patient (zero
\* ranges included) is appended to the processed observations with
\* interpretation NO_REF and adds nothing to the error list, so it never
\* causes rejection.
C9_NoReferenceFallback ==
    \A b \in BatchIds :
        LET p == proc[b]
            d == data[b]
        IN  /\ \A k \in 1..(p.idx - 1) :
                (~C4_Failed(b, k) /\ C9_NoRange(b, d.result[k]))
                => /\ C9_Position(b, k) <= Len(p.processedTests)
                   /\ p.processedTests[C9_Position(b, k)].localTestId =
                        d.result[k].localTestId
                   /\ p.processedTests[C9_Position(b, k)].interpretation =
                        "NO_REF"
            /\ Len(p.errors) =
                Cardinality({j \in 1..(p.idx - 1) : C4_Failed(b, j)})
            /\ (p.pc = "awaitRejectedUpdate" \/ incoming[b].status = "rejected")
                => \E j \in DOMAIN d.result : C4_Failed(b, j)

\* the lookups of a collection issued for item k of batch b
C16_Issued(b, k, collection) ==
    {i \in DOMAIN proc[b].queries :
        /\ proc[b].queries[i].item = k
        /\ proc[b].queries[i].collection = collection}

\* C16: when a mapping or range lookup throws while an item is processed,
\* exactly one error is recorded for that item and the loop is at a later
\* item; no lookup is issued twice for an item (the failed one is not
\* retried), and the batch is not aborted: the loop ends only after its
\* last item.
C16_NoRetry ==
    \A b \in BatchIds :
        LET p == proc[b]
            d == data[b]
        IN  /\ \A k \in p.threw :
                /\ p.idx > k
                /\ LET e == Cardinality({j \in 1..k : C4_Failed(b, j)})
                   IN  /\ e <= Len(p.errors)
                       /\ p.errors[e] =
                            [localTestId |-> d.result[k].localTestId,
                             reason |-> "lookup failed"]
                /\ Len(p.errors) =
                    Cardinality({j \in 1..(p.idx - 1) : C4_Failed(b, j)})
            /\ \A k \in DOMAIN d.result :
                /\ Cardinality(C16_Issued(b, k, "MAPPINGS")) <= 1
                /\ Cardinality(C16_Issued(b, k, "REFS")) <= 1
            /\ \A i \in DOMAIN p.queries : p.queries[i].item <= p.idx
            /\ p.pc \notin LoopPcs => p.idx = Len(d.result) + 1

\* the mapping lookup of the first of two items threw, it was issued once,
\* and the second item was processed into an observation
C16_Witness ==
    \E b \in BatchIds :
        /\ proc[b].pc = "done"
        /\ proc[b].threw = {1}
        /\ Len(data[b].result) = 2
        /\ Cardinality(C16_Issued(b, 1, "MAPPINGS")) = 1
        /\ Cardinality(C16_Issued(b, 1, "REFS")) = 0
        /\ Len(proc[b].errors) = 1
        /\ Len(proc[b].processedTests) = 1

\* what a run alone, none of whose lookups throws, makes of reading t for
\* patient q: an error, or the processed observation
C17_Alone(t, q) ==
    LET r == AfterMapping(t, DirMapping(t))
    IN  IF r.kind = "error"
        THEN [kind |-> "error",
              entry |-> [localTestId |-> t.localTestId, reason |-> r.reason]]
        ELSE [kind |-> "ok",
              entry |->
                [localTestId |-> t.localTestId, loinc |-> r.loinc,
                 display |-> r.display, value |-> r.finalValue,
                 unit |-> r.finalUnit,
                 interpretation |->
                    Interpret(FindRef(RefDirectory(r.loinc), sex(q),
                                      patientAge(q)),
                              r.finalValue)]]
C17_AloneTable ==
    {<<t, b, C17_Alone(t, IsolationPatients[b])>> :
        t \in IsolationItems, b \in TwoBatches}
\* the result of item k of batch b, given the lookups that threw for it
C17_Expected(b, k) ==
    IF k \in proc[b].threw
    THEN [kind |-> "error",
          entry |-> [localTestId |-> data[b].result[k].localTestId,
                     reason |-> "lookup failed"]]
    ELSE (CHOOSE x \in C17_AloneTable :
            x[1] = data[b].result[k] /\ x[2] = b)[3]
RECURSIVE C17_ExpectedList(_, _, _)
C17_ExpectedList(b, k, kind) ==
    IF k = 0 THEN <<>>
    ELSE IF C17_Expected(b, k).kind = kind
         THEN Append(C17_ExpectedList(b, k - 1, kind),
                     C17_Expected(b, k).entry)
         ELSE C17_ExpectedList(b, k - 1, kind)
\* the keys a run may have in its caches: those of its own items so far
C17_OwnIds(b) ==
    {data[b].result[k].localTestId :
        k \in 1..(IF proc[b].idx <= Len(data[b].result) THEN proc[b].idx
                  ELSE Len(data[b].result))}
C17_OwnCodes(b) ==
    {KeyOf(getLoincFromMapping(DirMapping(t))) :
        t \in {x \in IsolationItems :
                    x.localTestId \in C17_OwnIds(b) /\ DirMapping(x) # JNull}}

\* C17: with the steps of two runs interleaved at every await, the mapping
\* cache and the range cache of a run hold only what that run looked up
\* for its own items, and the processed observations, the errors and the
\* terminal outcome of each run are those it has running alone against the
\* same directories.
C17_BatchIsolation ==
    \A b \in TwoBatches :
        LET p == proc[b]
            d == data[b]
        IN  /\ DOMAIN p.mappingCache \subseteq C17_OwnIds(b)
            /\ DOMAIN p.refCache \subseteq C17_OwnCodes(b)
            /\ \A i \in DOMAIN p.queries :
                    p.queries[i].collection = "MAPPINGS"
                    => p.queries[i].key.s \in C17_OwnIds(b)
            /\ p.processedTests = C17_ExpectedList(b, p.idx - 1, "ok")
            /\ p.errors = C17_ExpectedList(b, p.idx - 1, "error")
            /\ OfBatch(observations, b) =
                    [i \in 1..Len(p.obsIds) |->
                        [id |-> p.obsIds[i],
                         loincCode |-> p.processedTests[i].loinc,
                         patientId |-> b,
                         value |-> p.processedTests[i].value,
                         unit |-> p.processedTests[i].unit,
                         abnormalFlag |-> p.processedTests[i].interpretation,
                         rawTest |-> p.processedTests[i]]]
            /\ p.pc = "done"
                => \/ /\ incoming[b].status = "pending"
                      /\ "Failed to update INCOMING doc" \in log[b]
                   \/ /\ p.errors # <<>>
                      /\ incoming[b].status = "rejected"
                      /\ incoming[b].errors = p.errors
                      /\ OfBatch(observations, b) = <<>>
                   \/ /\ p.errors = <<>>
                      /\ p.err # ""
                      /\ incoming[b].status = "error"
                   \/ /\ p.errors = <<>>
                      /\ p.err = ""
                      /\ incoming[b].status = "validated"
                      /\ Len(OfBatch(observations, b)) = Len(d.result)
                      /\ Len(d.result) > 0
                            => /\ Len(OfBatch(reports, b)) = 1
                               /\ OfBatch(reports, b)[1].observationIds =
                                    p.obsIds
                               /\ incoming[b].reportId =
                                    OfBatch(reports, b)[1].id

\* both runs validated their batch, their observations written in turn,
\* and the same reading was flagged differently for the two patients
C17_Witness ==
    /\ \A b \in TwoBatches :
            proc[b].pc = "done" /\ incoming[b].status = "validated"
    /\ Len(observations) >= 3
    /\ observations[1].patientId # observations[2].patientId
    /\ observations[2].patientId # observations[3].patientId
    /\ observations[1].rawTest.localTestId =
            observations[2].rawTest.localTestId
    /\ observations[1].abnormalFlag # observations[2].abnormalFlag

\* the terminal branches a finished run went through
C18_Outcomes(b) ==
    {o \in {"rejected", "validated", "commit error"} :
        \/ o = "rejected" /\ proc[b].errors # <<>>
        \/ o = "commit error" /\ proc[b].err # ""
        \/ /\ o = "validated"
           /\ proc[b].errors = <<>>
           /\ proc[b].err = ""
           /\ Len(data[b].result) = 0 \/ OfBatch(audits, b) # <<>>}
\* the status that records an outcome
C18_Status(o) ==
    CASE o = "rejected" -> "rejected"
      [] o = "validated" -> "validated"
      [] o = "commit error" -> "error"
C18_Finished(b) ==
    /\ proc[b].pc = "done"
    /\ proc[b].idx = Len(data[b].result) + 1
    /\ Len(proc[b].processedTests) + Len(proc[b].errors) =
            Len(data[b].result)
    /\ Cardinality(C18_Outcomes(b)) = 1
    /\ \/ \E o \in C18_Outcomes(b) : incoming[b].status = C18_Status(o)
       \/ /\ incoming[b].status = "pending"
          /\ "Failed to update INCOMING doc" \in log[b]

C11_NumericLooking(v) ==
    \/ v.t = "number"
    \/ /\ v.t = "string"
       /\ Trim(v.s) # <<>>
       /\ \A i \in DOMAIN Trim(v.s) : IsDigit(Trim(v.s)[i])
C11_OtherValued == {t \in Items : ~C11_NumericLooking(t.value)}

\* C11: a raw value that is neither a number nor a numeric-looking string
\* (the empty string, null, ...) is never turned into a number: the
\* processed observation carries it unchanged and is flagged NO_REF.
C11_NoCoercion ==
    \A b \in BatchIds :
        \A k \in 1..(proc[b].idx - 1) :
            (~C4_Failed(b, k) /\ data[b].result[k] \in C11_OtherValued)
            => /\ proc[b].processedTests[C9_Position(b, k)].value =
                    data[b].result[k].value
               /\ proc[b].processedTests[C9_Position(b, k)].interpretation =
                    "NO_REF"

\* a validated batch holding a numeric observation flagged NO_REF although
\* the directory has ranges for its code (none matches the patient)
C9_Witness ==
    \E b \in BatchIds :
        /\ incoming[b].status = "validated"
        /\ \E i \in DOMAIN observations :
            /\ observations[i].patientId = b
            /\ observations[i].abnormalFlag = "NO_REF"
            /\ observations[i].value.t = "number"
            /\ RefDirectory(observations[i].loincCode) # <<>>

\* C19: whenever convertIfNeeded converts a value from a unit to another
\* one, it converts in the opposite direction too, and the value converted
\* there and back is the value itself, exactly (values are rationals).
C19_RoundTrip ==
    /\ (call.fn = "convertIfNeeded" /\ ret.done /\ ~ret.v.threw)
        => ~convertIfNeeded(ret.v.value, call.toUnit, call.fromUnit).threw
    /\ (call.fn = "convertIfNeeded" /\ ret.done /\ "back" \in DOMAIN ret)
        => /\ ~ret.back.threw
           /\ ret.back.value = call.value

\* 13/10 mg/dL to mmol/L and back: the value in between is another one
C19_Witness ==
    /\ call.fn = "convertIfNeeded"
    /\ ret.done
    /\ "back" \in DOMAIN ret
    /\ call.fromUnit = JStr(U_mg_dL)
    /\ call.toUnit = JStr(U_mmol_L)
    /\ call.value = Rat(13, 10)
    /\ ret.v.value = Rat(6500, 90091)
    /\ ret.back.value = Rat(13, 10)

\* C20: convertIfNeeded from a unit to the same unit returns the value as
\* it is with note null and does not throw, whatever the unit: in the
\* factor table, outside it (IU/L, %) or no canonical token at all.
C20_Identity ==
    (call.fn = "convertIfNeeded" /\ ret.done /\ call.fromUnit = call.toUnit)
    => /\ ~ret.v.threw
       /\ ret.v.value = call.value
       /\ ret.v.note = "null"

\* -5/2 % to %: a unit without an entry in the factor table
C20_Witness ==
    /\ call.fn = "convertIfNeeded"
    /\ ret.done
    /\ call.fromUnit = JStr(U_pct)
    /\ call.toUnit = JStr(U_pct)
    /\ call.value = Rat(0 - 5, 2)
    /\ ret.v = Converted(call.value, "null")
\* the raw readings whose value is a number in a unit other than the
\* canonical unit of their mapping, the conversion being tabulated
C21_ConvertedItems ==
    {t \in Items :
        /\ t \notin FailingItems
        /\ ~IsNaN(Number(t.value))
        /\ getDefaultUnitFromMapping(DirMapping(t)) # JNull
        /\ normalizeUnit(t.unit) # getDefaultUnitFromMapping(DirMapping(t))}
\* the value of such a reading in the canonical unit
C21_Value(t) ==
    JNum(convertIfNeeded(RatOf(Number(t.value)), normalizeUnit(t.unit),
                         getDefaultUnitFromMapping(DirMapping(t))).value)
\* the range of the reading's canonical code selected for a patient
C21_Range(t, q) ==
    FindRef(RefDirectory(getLoincFromMapping(DirMapping(t))),
            sex(q), patientAge(q))
\* reading, patient, value in the canonical unit, flag of that value
C21_Table ==
    {<<t, q, C21_Value(t), Interpret(C21_Range(t, q), C21_Value(t))>> :
        t \in C21_ConvertedItems, q \in Patients}
C21_Patient(b) ==
    [sex |-> data[b].sex, P_sex |-> data[b].P_sex,
     P_gender |-> data[b].P_gender, P_age |-> data[b].P_age]
C21_Glucose7 ==
    Item(T_glu, JStr(<<"7">>), <<" ">> \o ToUpperCase(U_mmol_l) \o <<" ">>)

\* C21: an item whose normalized unit differs from the canonical unit of
\* its mapping, with a tabulated conversion, is processed with the value
\* converted to the canonical unit, the canonical unit, and the flag of the
\* converted value against the selected range (7 mmol/L of glucose is
\* 7 x 18.0182 mg/dL and flagged H between 70 and 110); the observation
\* written for it carries that value, unit and flag.
C21_ClassifiesConverted ==
    \A b \in BatchIds :
        LET p == proc[b]
            d == data[b]
        IN  /\ \A k \in 1..(p.idx - 1) :
                (~C4_Failed(b, k) /\ d.result[k] \in C21_ConvertedItems)
                => LET o == p.processedTests[C9_Position(b, k)]
                   IN  /\ <<d.result[k], C21_Patient(b), o.value,
                             o.interpretation>> \in C21_Table
                       /\ o.unit =
                            getDefaultUnitFromMapping(DirMapping(d.result[k]))
                       /\ (d.result[k] = C21_Glucose7
                            /\ sex(d) = <<"F">>)
                            => /\ o.value = JNum(Rat(1261274, 10000))
                               /\ o.interpretation = "H"
            /\ \A j \in DOMAIN OfBatch(observations, b) :
                LET w == OfBatch(observations, b)[j]
                IN  /\ w.value = p.processedTests[j].value
                    /\ w.unit = p.processedTests[j].unit
                    /\ w.abnormalFlag = p.processedTests[j].interpretation

\* 7 mmol/L of glucose for the woman of 30: written as 126.1274 mg/dL and
\* flagged H, where the raw 7 is below every bound of her range
C21_Witness ==
    \E b \in BatchIds :
        /\ sex(data[b]) = <<"F">>
        /\ data[b].result = <<C21_Glucose7>>
        /\ Len(OfBatch(observations, b)) = 1
        /\ OfBatch(observations, b)[1].value = JNum(Rat(1261274, 10000))
        /\ OfBatch(observations, b)[1].unit = JStr(U_mg_dL)
        /\ OfBatch(observations, b)[1].abnormalFlag = "H"
        /\ Interpret(C21_Range(C21_Glucose7, C21_Patient(b)),
                     Number(C21_Glucose7.value)) = "CRIT_LOW"
\* the lookups of a collection a run has issued, by their place in the
\* order of issue
C22_Lookups(b, collection) ==
    {i \in DOMAIN proc[b].queries :
        proc[b].queries[i].collection = collection}

\* C22: within one run the Mapping Directory is asked at most once for a
\* local test identifier, whatever it returned (a document or nothing):
\* of two mapping lookups for one identifier, the earlier one threw.
C22_MappingMemoized ==
    \A b \in BatchIds :
        \A i, j \in C22_Lookups(b, "MAPPINGS") :
            (i < j /\ proc[b].queries[i].key = proc[b].queries[j].key)
            => proc[b].queries[i].item \in proc[b].threw

\* C23: within one run the Reference Range Directory is asked at most once
\* for a canonical code, an empty answer included (of two range lookups
\* for one code, the earlier one threw); the cache holds for the code the
\* whole list the directory returned, and an item processed without a
\* range lookup of its own has the code of an earlier lookup that returned.
C23_RangesMemoized ==
    \A b \in BatchIds :
        LET p == proc[b]
            d == data[b]
        IN  /\ \A i, j \in C22_Lookups(b, "REFS") :
                (i < j /\ p.queries[i].key = p.queries[j].key)
                => p.queries[i].item \in p.threw
            /\ \A i \in C22_Lookups(b, "REFS") :
                LET key == KeyOf(p.queries[i].key)
                IN  /\ key \in DOMAIN p.refCache
                        => p.refCache[key] =
                            JArray(RefDirectory(p.queries[i].key))
                    /\ (p.queries[i].item < p.idx
                        /\ p.queries[i].item \notin p.threw)
                        => key \in DOMAIN p.refCache
            /\ \A key \in DOMAIN p.refCache :
                \E i \in C22_Lookups(b, "REFS") : KeyOf(p.queries[i].key) = key
            /\ \A k \in 1..(p.idx - 1) :
                (~C4_Failed(b, k) /\ C16_Issued(b, k, "REFS") = {})
                => \E i \in C22_Lookups(b, "REFS") :
                        /\ p.queries[i].item < k
                        /\ p.queries[i].item \notin p.threw
                        /\ p.queries[i].key =
                            getLoincFromMapping(DirMapping(d.result[k]))

\* two readings of a code without any range: one range lookup, its empty
\* list cached, both readings processed
C23_Witness ==
    \E b \in BatchIds :
        /\ Len(data[b].result) = 2
        /\ data[b].result[1].localTestId = T_rat
        /\ data[b].result[2].localTestId = T_rat
        /\ Len(proc[b].processedTests) = 2
        /\ Cardinality(C22_Lookups(b, "REFS")) = 1
        /\ proc[b].refCache[L_rat] = JArray(<<>>)
\* the items among the first k of a batch that ended in the error list
C24_FailedUpTo(b, k) == {j \in 1..k : C4_Failed(b, j)}

\* C24: at every point of a run, the loop being at item idx, the processed
\* observations and the recorded errors together are idx - 1 entries: each
\* of the first idx - 1 items has its one entry, under its identifier, in
\* the error list when it failed and in the processed list when it did
\* not, at its place among the items of that list, and neither list holds
\* anything else.
C24_Partition ==
    \A b \in BatchIds :
        LET p == proc[b]
            d == data[b]
            k == p.idx - 1
        IN  /\ k <= Len(d.result)
            /\ Len(p.processedTests) + Len(p.errors) = k
            /\ Len(p.errors) = Cardinality(C24_FailedUpTo(b, k))
            /\ Len(p.processedTests) = k - Cardinality(C24_FailedUpTo(b, k))
            /\ \A j \in 1..k :
                IF C4_Failed(b, j)
                THEN p.errors[Cardinality(C24_FailedUpTo(b, j))].localTestId
                        = d.result[j].localTestId
                ELSE p.processedTests[j - Cardinality(C24_FailedUpTo(b, j))]
                        .localTestId = d.result[j].localTestId

\* a batch of two through the loop: its first item in the error list after
\* a lookup that threw, its second item in the processed list
C24_Witness ==
    \E b \in BatchIds :
        /\ proc[b].idx = 3
        /\ proc[b].threw = {1}
        /\ Len(proc[b].errors) = 1
        /\ Len(proc[b].processedTests) = 1
        /\ proc[b].processedTests[1].localTestId =
                data[b].result[2].localTestId
\* the ids of the documents of a collection written for a batch
C25_Ids(collection, b) ==
    [j \in DOMAIN OfBatch(collection, b) |-> OfBatch(collection, b)[j].id]

\* C25: for a batch with items, in every state: a report of the batch
\* exists only when one observation per item has been written, and lists
\* exactly their ids in order; an audit record exists only with the report
\* and names it; the incoming document is validated only with the audit
\* record written; and a step that writes a report or an audit record
\* writes no observation, a step that writes an observation finds no
\* report, a step that writes a report finds no audit record.
C25_SinkOrder ==
    /\ [](\A b \in BatchIds :
            Len(data[b].result) > 0
            => /\ Len(OfBatch(reports, b)) <= 1
               /\ Len(OfBatch(audits, b)) <= 1
               /\ OfBatch(reports, b) # <<>>
                    => /\ Len(OfBatch(observations, b)) = Len(data[b].result)
                       /\ proc[b].errors = <<>>
                       /\ OfBatch(reports, b)[1].observationIds =
                            C25_Ids(observations, b)
               /\ OfBatch(audits, b) # <<>>
                    => /\ OfBatch(reports, b) # <<>>
                       /\ OfBatch(audits, b)[1].targetId =
                            OfBatch(reports, b)[1].id
               /\ incoming[b].status = "validated"
                    => /\ OfBatch(audits, b) # <<>>
                       /\ incoming[b].reportId = OfBatch(reports, b)[1].id)
    /\ [][
           /\ observations' # observations
                => /\ reports' = reports
                   /\ audits' = audits
                   /\ \A b \in BatchIds :
                        (OfBatch(observations', b) # OfBatch(observations, b))
                        => (OfBatch(reports, b) = <<>>)
           /\ reports' # reports
                => /\ audits' = audits
                   /\ \A b \in BatchIds :
                        (OfBatch(reports', b) # OfBatch(reports, b))
                        => (OfBatch(audits, b) = <<>>)
           /\ \A b \in BatchIds :
                (/\ incoming'[b].status = "validated"
                 /\ incoming[b].status # "validated")
                => /\ observations' = observations
                   /\ reports' = reports
                   /\ audits' = audits
       ]_vars

\* a batch of two validated: two observations, the report listing both,
\* the audit record naming the report
C25_Witness ==
    \E b \in BatchIds :
        /\ Len(data[b].result) = 2
        /\ incoming[b].status = "validated"
        /\ Len(OfBatch(observations, b)) = 2
        /\ Len(OfBatch(reports, b)[1].observationIds) = 2
        /\ OfBatch(audits, b)[1].targetId = OfBatch(reports, b)[1].id
\* C26: whenever the incoming document of a batch has status validated, a
\* report of the batch has been created, the document's reportId is the
\* id of that report, and the report lists one observation id per item of
\* the batch (none for a batch without items).
C26_ValidatedMeansReport ==
    \A b \in BatchIds :
        incoming[b].status = "validated"
        => /\ OfBatch(reports, b) # <<>>
           /\ incoming[b].reportId = OfBatch(reports, b)[1].id
           /\ Len(OfBatch(reports, b)[1].observationIds) =
                Len(data[b].result)
\* the payload is a document of the INCOMING collection whose
\* preprocessed form passes the schema
C27_Admissible ==
    /\ call.fn = "main"
    /\ call.payload.t = "object"
    /\ call.payload.collectionId = JStr(COLS_INCOMING)
    /\ validateIncoming(preprocessPayload(call.payload))
\* no run started, no lookup issued, nothing written
C27_Untouched(b) ==
    /\ proc[b] = [InitProc EXCEPT !.pc = "unstarted"]
    /\ observations = <<>>
    /\ reports = <<>>
    /\ audits = <<>>
    /\ incoming[b] = InitIncoming
    /\ log[b] = {}

\* C27: a run of processLabResults exists only for a payload of the
\* INCOMING collection whose preprocessed form passes the schema, and main
\* has then answered ok = true; for every other payload (null, no
\* $collectionId, another collection, schema failure) main answers
\* ok = false and no run is started, no lookup issued and nothing written,
\* ever.
C27_EntryGuard ==
    \A b \in BatchIds :
        /\ ~C27_Admissible
            => /\ C27_Untouched(b)
               /\ ret.done => ~ret.v.ok
        /\ proc[b].pc # "unstarted"
            => /\ C27_Admissible
               /\ ret.done
               /\ ret.v.ok
        /\ ~ret.done => C27_Untouched(b)

\* a document of the observations collection that would pass the schema,
\* with one well-formed reading: refused as of the wrong collection
C27_Witness ==
    \E b \in BatchIds :
        /\ call.payload.t = "object"
        /\ call.payload.collectionId = JStr(COLS_OBS)
        /\ validateIncoming(preprocessPayload(call.payload))
        /\ call.payload.result.t = "array"
        /\ Len(call.payload.result.items) = 1
        /\ ret.done
        /\ ret.v = Refused("Wrong collection")
        /\ C27_Untouched(b)
====
